---- MODULE Spec2Model ----
(***************************************************************************)
(* Model of the activity processing engine of microblog (app/boxes.py):    *)
(* the inbound dispatcher save_to_inbox with its per-type handlers, the    *)
(* authoring operations send_create / send_delete / send_follow, and the   *)
(* tables they read and write (app/models.py).                             *)
(*                                                                         *)
(* A table is a set of rows.  A row is identified by its ap_id, which the  *)
(* schema declares unique; the *_id foreign keys of the schema therefore   *)
(* hold the ap_id of the row they point at.  Notifications and delivery    *)
(* work items have no natural key and are kept as bags.                    *)
(***************************************************************************)
EXTENDS Integers, Sequences, FiniteSets, Bags, TLC

VARIABLES
    inbox,                 \* InboxObject rows
    outbox,                \* OutboxObject rows
    actors,                \* Actor rows
    followers,             \* Follower rows
    following,             \* Following rows
    notifications,         \* bag of Notification rows
    outgoing_activities,   \* bag of OutgoingActivity rows (delivery work items)
    poll_answers,          \* PollAnswer rows
    clock,                 \* now()
    calls,                 \* save_to_inbox calls that passed the duplicate pre-check
    last,                  \* the most recent call and how it ended
    config                 \* the profile settings the server was started with

vars == <<inbox, outbox, actors, followers, following, notifications,
          outgoing_activities, poll_answers, clock, calls, last, config>>

tables == <<inbox, outbox, actors, followers, following, notifications,
            outgoing_activities, poll_answers>>

----------------------------------------------------------------------------
(* Bounds of the model *)

MaxOutbox == 4
MaxClock == 2
\* the interpreter's limit on nested calls
RecursionLimit == 4
MaxRevisions == 3

----------------------------------------------------------------------------
(* Configuration and identifiers *)

NONE == "none"
ID == "me"
AS_PUBLIC == "as:Public"
FOLLOWERS == "me/followers"
MANUALLY_APPROVES_FOLLOWERS == config.manually_approves_followers

\* allocate_outbox_id draws a fresh uuid; the n-th authored object gets the
\* n-th of these ids.
OutboxIds == <<"o1", "o2", "o3", "o4", "o5", "o6">>

outbox_object_id(n) == OutboxIds[n]

\* ap_id.startswith(BASE_URL)
IsLocal(ap_id) == ap_id \in {OutboxIds[i] : i \in DOMAIN OutboxIds} \cup {ID, FOLLOWERS}

RemoteActors == {"a1", "a2", "a3"}

inbox_url(a) == <<"inbox", a>>
\* Actor.shared_inbox_url: the sharedInbox endpoint of the actor's document,
\* or its inbox when it has none; a1 and a2 live on one server and share one
shared_inbox_url(a) == IF a \in {"a1", "a2"} THEN <<"shared", "s1">> ELSE inbox_url(a)

----------------------------------------------------------------------------
(* Remote documents.  An activity and the object it wraps are both         *)
(* documents; `object` holds the id of the wrapped or targeted object.     *)

Doc(id, type, actor, object, inReplyTo, name, content, sig) ==
    [id |-> id, type |-> type, actor |-> actor, object |-> object,
     inReplyTo |-> inReplyTo, name |-> name, content |-> content, sig |-> sig,
     target |-> NONE, to |-> {AS_PUBLIC}, cc |-> {}, tag |-> {}, quoteUrl |-> NONE,
     updated |-> 0, published |-> <<>>, context |-> NONE]

\* context: NONE when the document carries no `context`
\* published: <<>> when the document carries no `published`, else <<time>>
\* sig: "none" when the document carries no LD signature, else whether it verifies
Activity(id, type, actor, object) == Doc(id, type, actor, object, NONE, NONE, FALSE, "none")
Signed(id, type, actor, object) == Doc(id, type, actor, object, NONE, NONE, FALSE, "valid")
Note(id, actor, inReplyTo) == Doc(id, "Note", actor, NONE, inReplyTo, NONE, TRUE, "none")
Vote(id, actor, inReplyTo, name) == Doc(id, "Note", actor, NONE, inReplyTo, name, FALSE, "none")
Move(id, actor, object, target) == [Activity(id, "Move", actor, object) EXCEPT !.target = target]

\* the alsoKnownAs list of a remote actor's document: a2 is the account a1
\* moved to
alsoKnownAs(ap_id) == IF ap_id = "a2" THEN {"a1"} ELSE {}

\* Every remote document that exists.
RemoteDocs ==
    { Note("r1", "a1", "o1"), Note("r2", "a2", "r1"), Note("r3", "a2", NONE),
      Activity("c1", "Create", "a1", "r1"),
      Activity("c2", "Create", "a2", "r2"),
      Activity("c3", "Create", "a2", "r3"),
      Activity("cx", "Create", "a2", "r1"),
      Activity("d1", "Delete", "a1", "r1"),
      Activity("d2", "Delete", "a2", "r2"),
      Activity("f1", "Follow", "a1", ID),
      Activity("f2", "Follow", "a2", ID),
      Activity("fx", "Follow", "a2", "a1"),
      Activity("f1b", "Follow", "a1", ID),
      Activity("uf1", "Undo", "a1", "f1"),
      Activity("uf1b", "Undo", "a1", "f1"),
      Activity("acc1", "Accept", "a1", "o1"),
      Activity("acc1b", "Accept", "a1", "o1"),
      Activity("l1", "Like", "a1", "o1"),
      Activity("l2", "Like", "a2", "o1"),
      Activity("lx", "Like", "a2", "r9"),
      Activity("an1", "Announce", "a3", "o1"),
      Activity("ul1", "Undo", "a1", "l1"),
      Activity("ul1b", "Undo", "a1", "l1"),
      Activity("uan1", "Undo", "a3", "an1"),
      Activity("v1", "View", "a1", "o1"),
      Vote("va1", "a1", "o1", "A"), Vote("va2", "a2", "o1", "A"),
      Vote("vb3", "a3", "o1", "B"), Vote("vb1", "a1", "o1", "B"),
      Vote("vc2", "a2", "o1", "C"),
      Activity("cva1", "Create", "a1", "va1"),
      Activity("cva2", "Create", "a2", "va2"),
      Activity("cvb3", "Create", "a3", "vb3"),
      Activity("cvb1", "Create", "a1", "vb1"),
      Activity("cvc2", "Create", "a2", "vc2"),
      Note("k1", "a1", "k1"), Note("k2", "a1", "k3"), Note("k3", "a2", "k2"),
      Activity("ck1", "Create", "a1", "k1"), Activity("ck2", "Create", "a1", "k2"),
      Activity("ck3", "Create", "a2", "k3"),
      Activity("d3", "Delete", "a2", "r3"), Activity("d3x", "Delete", "a1", "r3"),
      Signed("fl1", "Like", "a1", "o1"), Activity("fl2", "Like", "a2", "o1"),
      Doc("fl3", "Like", "a1", "o1", NONE, NONE, FALSE, "invalid"),
      Activity("fl4", "Like", "a2", "o1"), Activity("ff2", "Follow", "a2", ID),
      Activity("l4", "Like", "a4", "o1"), Activity("l5", "Like", "a5", "o1"),
      Move("mv1", "a1", "a1", "a2"), Move("mv1b", "a1", "a1", "a2"),
      Move("mvx", "a1", "a1", "a3"), Move("mvy", "a2", "a1", "a2"),
      \* a note addressed to the local actor only, and its Create
      [Note("p1", "a1", NONE) EXCEPT !.to = {ID}],
      [Activity("cp1", "Create", "a1", "p1") EXCEPT !.to = {ID}],
      \* an Update embeds the new revision of its object: `updated` is the
      \* revision's timestamp (0: never revised)
      [Activity("up3", "Update", "a2", "r3") EXCEPT !.updated = 1],
      [Activity("up3x", "Update", "a1", "r3") EXCEPT !.updated = 1],
      Activity("uf2x", "Undo", "a1", "f2"), Activity("ul2x", "Undo", "a1", "l2"),
      Activity("da1", "Delete", "a1", "a1"), Activity("dax", "Delete", "a1", "a2"),
      \* notes for the stream: a top-level note and a reply to the second local
      \* object by a1, a reply by a3 that mentions the local actor, and a note
      \* by a2 that quotes r3
      Note("n1", "a1", NONE), Note("r4", "a1", "o2"),
      [Note("m1", "a3", "r3") EXCEPT !.tag = {ID}],
      [Note("q1", "a2", NONE) EXCEPT !.quoteUrl = "r3"],
      Activity("cn1", "Create", "a1", "n1"), Signed("cr4", "Create", "a1", "r4"),
      Activity("cm1", "Create", "a3", "m1"), Activity("cq1", "Create", "a2", "q1"),
      Activity("f3", "Follow", "a3", ID),
      \* a signed reply to the first local object, and a signed note that
      \* quotes that reply
      Note("rs1", "a2", "o1"), Signed("cs1", "Create", "a2", "rs1"),
      [Note("q2", "a1", NONE) EXCEPT !.quoteUrl = "rs1"],
      Signed("cq2", "Create", "a1", "q2"),
      \* answers to follow requests: a refusal of the first local activity,
      \* and answers that name an activity nobody knows
      Activity("rej1", "Reject", "a1", "o1"),
      Activity("accx", "Accept", "a1", "r9"), Activity("rejx", "Reject", "a1", "r9"),
      \* boosts: of a2's note by a1, by a3 and by a1 in an activity published
      \* at time 0, of a1's note by a1, and of the second local object by a3
      Activity("an3", "Announce", "a1", "r3"), Activity("an3b", "Announce", "a3", "r3"),
      [Activity("an3p", "Announce", "a1", "r3") EXCEPT !.published = <<0>>],
      Activity("an4", "Announce", "a1", "n1"), Activity("an2", "Announce", "a3", "o2"),
      \* reactions of a1 and a2 to the second local object, and a1 taking
      \* its reactions back
      Activity("l3", "Like", "a1", "o2"), Activity("l6", "Like", "a2", "o2"),
      Activity("an5", "Announce", "a1", "o2"),
      Activity("dl3", "Delete", "a1", "l3"), Activity("dan5", "Delete", "a1", "an5"),
      \* a2 deletes its signed reply in a signed and in an unsigned Delete,
      \* and deletes itself
      Signed("ds1", "Delete", "a2", "rs1"), Activity("ds1u", "Delete", "a2", "rs1"),
      Signed("da2", "Delete", "a2", "a2"),
      \* a reply by a1 to an object whose server fails, a note by a2 that
      \* quotes such an object, the two notes of a3's outbox (the second
      \* replies to such an object), and a3's answer to the first local activity
      Note("e1", "a1", "x5"), Activity("ce1", "Create", "a1", "e1"),
      [Note("q5", "a2", NONE) EXCEPT !.quoteUrl = "x5"],
      Activity("cq5", "Create", "a2", "q5"),
      Note("t1", "a3", NONE), Activity("ct1", "Create", "a3", "t1"),
      Note("t2", "a3", "x5"), Activity("ct2", "Create", "a3", "t2"),
      Activity("acc3", "Accept", "a3", "o1"), Activity("acc2", "Accept", "a2", "o1"),
      \* threads: a note by a1 that carries a context and a reply to it that
      \* carries none, two replies by a3 to an object that does not exist
      \* (gone9), the first with a context, and a reply by a1 to that first one
      [Note("g1", "a1", NONE) EXCEPT !.context = "cx1"], Note("g2", "a2", "g1"),
      [Note("g3", "a3", "gone9") EXCEPT !.context = "cx3"], Note("g4", "a3", "gone9"),
      Note("g5", "a1", "g3"),
      Activity("cg1", "Create", "a1", "g1"), Activity("cg2", "Create", "a2", "g2"),
      Activity("cg3", "Create", "a3", "g3"), Activity("cg4", "Create", "a3", "g4"),
      Activity("cg5", "Create", "a1", "g5"),
      \* a1 and a3 delete their reactions to the first local object
      Activity("dl1", "Delete", "a1", "l1"), Activity("dan1", "Delete", "a3", "an1") }

\* ap.parse_collection(actor.outbox_url): the activities a remote actor's
\* outbox lists, newest first; a2's server fails to answer
OutboxCollection(actor) == IF actor = "a3" THEN <<"ct1", "ct2">> ELSE <<>>
OutboxUnavailable == {"a2"}

\* ap.unwrap_activity / ap.get_object: the document embedded in an activity
HasDoc(id) == \E d \in RemoteDocs : d.id = id
GetDoc(id) == CHOOSE d \in RemoteDocs : d.id = id

\* every id a document names, directly or through the documents it names
\* what the origin answers to ap.fetch(id): nothing for fl3, the actor
\* document for fl4, a 5xx or no answer at all for x5, the activity otherwise
Unreachable == {"x5"}
NotServed == {"fl3"}
ServedAsActor == {"fl4"}
Fetchable(id) == HasDoc(id) /\ id \notin NotServed
ap_fetch(id) ==
    IF id \in ServedAsActor
    THEN [GetDoc(id) EXCEPT !.id = GetDoc(id).actor, !.type = "Person", !.object = NONE]
    ELSE GetDoc(id)

RECURSIVE RefsSeen(_, _)
RefsSeen(id, seen) ==
    IF id = NONE \/ id \in seen THEN {}
    ELSE IF ~HasDoc(id) THEN {id}
    ELSE {id} \cup RefsSeen(GetDoc(id).object, seen \cup {id})
              \cup RefsSeen(GetDoc(id).inReplyTo, seen \cup {id})

Refs(id) == RefsSeen(id, {})

----------------------------------------------------------------------------
(* The store as one value, so that a handler is a function from store to   *)
(* store and a transaction is committed or dropped as a whole.  exc holds  *)
(* the exception that ended the handler, "" when it returned normally.     *)

DB == [inbox |-> inbox, outbox |-> outbox, actors |-> actors,
       followers |-> followers, following |-> following,
       notifications |-> notifications,
       outgoing_activities |-> outgoing_activities,
       poll_answers |-> poll_answers, exc |-> ""]

Raise(s, e) == IF s.exc = "" THEN [s EXCEPT !.exc = e] ELSE s

\* db_session.commit()
Commit(s) ==
    /\ inbox' = s.inbox
    /\ outbox' = s.outbox
    /\ actors' = s.actors
    /\ followers' = s.followers
    /\ following' = s.following
    /\ notifications' = s.notifications
    /\ outgoing_activities' = s.outgoing_activities
    /\ poll_answers' = s.poll_answers

InboxIds(s) == {r.ap_id : r \in s.inbox}
OutboxApIds(s) == {r.ap_id : r \in s.outbox}

get_inbox_object_by_ap_id(s, ap_id) == CHOOSE r \in s.inbox : r.ap_id = ap_id
get_outbox_object_by_ap_id(s, ap_id) == CHOOSE r \in s.outbox : r.ap_id = ap_id

\* get_anybox_object_by_ap_id: the store is picked by the id's prefix
InAnybox(s, ap_id) ==
    IF IsLocal(ap_id) THEN ap_id \in OutboxApIds(s) ELSE ap_id \in InboxIds(s)

get_anybox_object_by_ap_id(s, ap_id) ==
    IF IsLocal(ap_id) THEN get_outbox_object_by_ap_id(s, ap_id)
    ELSE get_inbox_object_by_ap_id(s, ap_id)

\* UPDATE inbox SET fld = v WHERE ap_id = id
InboxSet(s, id, fld, v) ==
    [s EXCEPT !.inbox = {IF r.ap_id = id THEN [r EXCEPT ![fld] = v] ELSE r : r \in @}]

\* UPDATE outbox SET fld = v WHERE ap_id = id
OutboxSet(s, id, fld, v) ==
    [s EXCEPT !.outbox = {IF r.ap_id = id THEN [r EXCEPT ![fld] = v] ELSE r : r \in @}]

\* UPDATE outbox SET fld = fld + d WHERE ap_id = id
OutboxAdd(s, id, fld, d) ==
    [s EXCEPT !.outbox = {IF r.ap_id = id THEN [r EXCEPT ![fld] = @ + d] ELSE r : r \in @}]

\* db_session.delete(inbox_object)
InboxDelete(s, id) == [s EXCEPT !.inbox = {r \in @ : r.ap_id # id}]

Notification(type, actor, in_id, out_id) ==
    [notification_type |-> type, actor_id |-> actor,
     inbox_object_id |-> in_id, outbox_object_id |-> out_id,
     is_accepted |-> FALSE, is_rejected |-> FALSE]

AddNotification(s, n) == [s EXCEPT !.notifications = @ (+) SetToBag({n})]

\* app.outgoing_activities.new_outgoing_activity: one work item per call
new_outgoing_activity(s, recipient, out_id, in_id) ==
    [s EXCEPT !.outgoing_activities = @ (+) SetToBag({
        [recipient |-> recipient, outbox_object_id |-> out_id,
         inbox_object_id |-> in_id]})]

\* for rcp in recipients: await new_outgoing_activity(...)
EnqueueAll(s, recipients, out_id, in_id) ==
    [s EXCEPT !.outgoing_activities = @ (+) SetToBag({
        [recipient |-> rcp, outbox_object_id |-> out_id,
         inbox_object_id |-> in_id] : rcp \in recipients})]

\* app.actor.fetch_actor: the cached row, or the remote actor saved on
\* first reference
KnownActor(s, ap_id) == \E a \in s.actors : a.ap_id = ap_id

fetch_actor(s, ap_id) ==
    IF ap_id = ID \/ KnownActor(s, ap_id) THEN s
    ELSE [s EXCEPT !.actors = @ \cup {[ap_id |-> ap_id, is_deleted |-> FALSE,
                                       is_blocked |-> FALSE]}]

\* fetch_actor_collection(BASE_URL + "/followers")
fetch_actor_collection(s) == {f.ap_actor_id : f \in s.followers}

\* a resolution that does not drop the local actor's own id
RecipientsKeepSelf(s, ap_object) ==
    UNION { IF r = AS_PUBLIC THEN {}
            ELSE IF r = FOLLOWERS
                 THEN {shared_inbox_url(a) : a \in fetch_actor_collection(s)}
                 ELSE {shared_inbox_url(r)}
          : r \in ap_object.to \cup ap_object.cc }

\* _compute_recipients: the endpoints the addressing fields resolve to.  A
\* local URL other than the followers collection makes fetch_actor_collection
\* raise; no authoring operation addresses one.
_compute_recipients(s, ap_object) ==
    LET _recipients == ap_object.to \cup ap_object.cc
    IN UNION { IF r \in {AS_PUBLIC, ID} THEN {}
               ELSE IF r = FOLLOWERS
                    THEN {shared_inbox_url(a) : a \in fetch_actor_collection(s)}
                    ELSE {shared_inbox_url(r)}
             : r \in _recipients }

\* followers' endpoints with nobody skipped
FollowersRecipientsSkipNobody(s, skip_actors) ==
    {shared_inbox_url(f.ap_actor_id) : f \in s.followers}

_get_followers_recipients(s, skip_actors) ==
    {shared_inbox_url(f.ap_actor_id) : f \in {g \in s.followers : g.ap_actor_id \notin skip_actors}}

_get_replies_count(s, replied_object_ap_id) ==
    Cardinality({r \in s.inbox : r.in_reply_to = replied_object_ap_id /\ ~r.is_deleted})
    + Cardinality({r \in s.outbox : r.in_reply_to = replied_object_ap_id /\ ~r.is_deleted})

----------------------------------------------------------------------------
(* Rows *)

\* a derivation that reads only the "to" field
VisibilityIgnoresCc(to, cc) ==
    IF AS_PUBLIC \in to THEN "public"
    ELSE IF FOLLOWERS \in to THEN "unlisted"
    ELSE "direct"

\* ap.object_visibility (RemoteObject.visibility): the visibility is derived
\* from the addressing fields
object_visibility(to, cc) ==
    IF AS_PUBLIC \in to THEN "public"
    ELSE IF FOLLOWERS \in to /\ AS_PUBLIC \in cc THEN "unlisted"
    ELSE IF FOLLOWERS \in to THEN "followers-only"
    ELSE "direct"

\* models.InboxObject as built by save_to_inbox
InboxObject(doc, relates_in, relates_out, now) ==
    [ap_id |-> doc.id, ap_type |-> doc.type, ap_actor_id |-> doc.actor,
     activity_object_ap_id |-> doc.object, in_reply_to |-> doc.inReplyTo,
     name |-> doc.name, content |-> doc.content, target |-> doc.target,
     has_ld_signature |-> (doc.sig # "none"),
     created_at |-> now,
     ap_published_at |-> IF doc.published = <<>> THEN now ELSE doc.published[1],
     relates_to_inbox_object_id |-> relates_in,
     relates_to_outbox_object_id |-> relates_out,
     is_hidden_from_stream |-> TRUE, is_deleted |-> FALSE, is_transient |-> FALSE,
     replies_count |-> 0, undone_by_inbox_object_id |-> NONE,
     ap_context |-> doc.context, conversation |-> NONE,
     visibility |-> object_visibility(doc.to, doc.cc),
     announced_via_outbox_object_ap_id |-> NONE,
     updated |-> doc.updated,
     quote_url |-> doc.quoteUrl, quoted_inbox_object_id |-> NONE]

\* models.OutboxObject as built by save_outbox_object; content, published
\* and updated are the fields of ap_object that an edit rewrites (updated is
\* <<>> in a document that was never edited, else <<time>>)
OutboxObject(ap_id, ap_type, object, in_reply_to, to, cc) ==
    [ap_id |-> ap_id, ap_type |-> ap_type, activity_object_ap_id |-> object,
     in_reply_to |-> in_reply_to, to |-> to, cc |-> cc,
     relates_to_inbox_object_id |-> NONE, relates_to_outbox_object_id |-> NONE,
     relates_to_actor_id |-> NONE,
     is_deleted |-> FALSE, is_transient |-> FALSE,
     likes_count |-> 0, announces_count |-> 0, replies_count |-> 0,
     undone_by_outbox_object_id |-> NONE,
     votersCount |-> 0, poll_items |-> <<>>, endTime |-> 0,
     ap_context |-> NONE, conversation |-> NONE,
     source |-> NONE, content |-> NONE, published |-> 0, updated |-> <<>>,
     revisions |-> <<>>,
     visibility |-> object_visibility(to, cc)]

\* allocate_outbox_id + outbox_object_id: the id of the next authored object
NextOutboxId(s) == outbox_object_id(Cardinality(s.outbox) + 1)

save_outbox_object(s, row) == [s EXCEPT !.outbox = @ \cup {row}]

\* _send_follow: the caller commits
_send_follow(s, ap_actor_id) ==
    LET s1 == fetch_actor(s, ap_actor_id)
        follow_id == NextOutboxId(s1)
        follow == [OutboxObject(follow_id, "Follow", ap_actor_id, NONE, {}, {})
                      EXCEPT !.relates_to_actor_id = ap_actor_id]
        s2 == save_outbox_object(s1, follow)
    IN new_outgoing_activity(s2, inbox_url(ap_actor_id), follow_id, NONE)

\* an Undo of a Follow that leaves the Following row in place
SendUndoKeepsFollowing(s, ap_object_id) ==
    LET outbox_object_to_undo == get_outbox_object_by_ap_id(s, ap_object_id)
        undo_id == NextOutboxId(s)
        undo == [OutboxObject(undo_id, "Undo", ap_object_id, NONE, {}, {})
                    EXCEPT !.relates_to_outbox_object_id = ap_object_id]
        s1 == OutboxSet(save_outbox_object(s, undo), ap_object_id,
                        "undone_by_outbox_object_id", undo_id)
    IN IF ap_object_id \notin OutboxApIds(s) THEN Raise(s, "ValueError")
       ELSE IF outbox_object_to_undo.ap_type # "Follow" THEN Raise(s, "ValueError")
       ELSE new_outgoing_activity(
                fetch_actor(s1, outbox_object_to_undo.activity_object_ap_id),
                inbox_url(outbox_object_to_undo.activity_object_ap_id), undo_id, NONE)

\* _send_undo: the caller commits.  send_like and send_announce are not
\* modelled, so the markers they leave on the liked or announced object
\* are not either.
_send_undo(s, ap_object_id) ==
    LET outbox_object_to_undo == get_outbox_object_by_ap_id(s, ap_object_id)
        target == outbox_object_to_undo.activity_object_ap_id
        undo_id == NextOutboxId(s)
        undo == [OutboxObject(undo_id, "Undo", ap_object_id, NONE, {}, {})
                    EXCEPT !.relates_to_outbox_object_id = ap_object_id]
        s1 == OutboxSet(save_outbox_object(s, undo), ap_object_id,
                        "undone_by_outbox_object_id", undo_id)
    IN IF ap_object_id \notin OutboxApIds(s) THEN Raise(s, "ValueError")
       ELSE IF outbox_object_to_undo.ap_type \notin {"Follow", "Like", "Announce"}
            THEN Raise(s, "ValueError")
       ELSE IF target = NONE THEN Raise(s1, "ValueError")
       ELSE IF outbox_object_to_undo.ap_type = "Follow"
       THEN LET s2 == new_outgoing_activity(fetch_actor(s1, target),
                                            inbox_url(target), undo_id, NONE)
            IN [s2 EXCEPT !.following = {f \in @ : f.ap_actor_id # target}]
       ELSE IF target \notin InboxIds(s1) THEN Raise(s1, "ValueError")
       ELSE IF outbox_object_to_undo.ap_type = "Like"
       THEN new_outgoing_activity(
                s1, inbox_url(get_inbox_object_by_ap_id(s1, target).ap_actor_id),
                undo_id, NONE)
       ELSE EnqueueAll(InboxSet(s1, target, "announced_via_outbox_object_ap_id", NONE),
                       _compute_recipients(s1, undo), undo_id, NONE)

----------------------------------------------------------------------------
(* Inbound handlers.  Each takes the store of the running transaction and  *)
(* returns the store it leaves.                                            *)

_handle_like_activity(s, actor, like_id, relates_out) ==
    IF relates_out = NONE
    THEN InboxDelete(s, like_id)
    ELSE AddNotification(OutboxAdd(s, relates_out, "likes_count", 1),
                         Notification("like", actor, like_id, relates_out))

_send_accept(s, from_actor, inbox_object_id) ==
    LET s1 == IF \E f \in s.followers : f.ap_actor_id = from_actor
              THEN s   \* IntegrityError, swallowed
              ELSE [s EXCEPT !.followers = @ \cup
                       {[ap_actor_id |-> from_actor, inbox_object_id |-> inbox_object_id]}]
        reply_id == NextOutboxId(s1)
        reply == [OutboxObject(reply_id, "Accept", inbox_object_id, NONE, {}, {})
                     EXCEPT !.relates_to_inbox_object_id = inbox_object_id]
        s2 == save_outbox_object(s1, reply)
        s3 == new_outgoing_activity(s2, inbox_url(from_actor), reply_id, NONE)
    IN AddNotification(s3, Notification("new_follower", from_actor, NONE, NONE))

\* a Follow handler that accepts whatever the profile says
FollowAlwaysAccepted(s, from_actor, follow_id) ==
    IF get_inbox_object_by_ap_id(s, follow_id).activity_object_ap_id # ID
    THEN InboxDelete(s, follow_id)
    ELSE _send_accept(s, from_actor, follow_id)

_handle_follow_follow_activity(s, from_actor, follow_id) ==
    LET follow_activity == get_inbox_object_by_ap_id(s, follow_id)
    IN IF follow_activity.activity_object_ap_id # ID
       THEN InboxDelete(s, follow_id)
       ELSE IF MANUALLY_APPROVES_FOLLOWERS
            THEN AddNotification(s, Notification("pending_incoming_follower",
                                                 from_actor, follow_id, NONE))
            ELSE _send_accept(s, from_actor, follow_id)

\* an Undo that marks the original and leaves the Follower row in place
UndoKeepsFollower(s, from_actor, undo_id, to_undo_id) ==
    LET ap_activity_to_undo == get_inbox_object_by_ap_id(s, to_undo_id)
    IN IF from_actor # ap_activity_to_undo.ap_actor_id THEN s
       ELSE InboxSet(InboxSet(s, to_undo_id, "undone_by_inbox_object_id", undo_id),
                     to_undo_id, "is_deleted", TRUE)

\* an Update handler that does not compare the sender with the owner
UpdateWithoutOwnerCheck(s, from_actor, update_id) ==
    LET update_activity == get_inbox_object_by_ap_id(s, update_id)
    IN IF update_activity.activity_object_ap_id \in InboxIds(s)
       THEN InboxSet(s, update_activity.activity_object_ap_id, "updated",
                     update_activity.updated)
       ELSE s

\* _handle_update_activity: the wrapped object is an actor document or the
\* new revision of a stored object
_handle_update_activity(s, from_actor, update_id) ==
    LET update_activity == get_inbox_object_by_ap_id(s, update_id)
        wrapped_id == update_activity.activity_object_ap_id
    IN IF wrapped_id \in RemoteActors
       THEN IF from_actor # wrapped_id THEN Raise(s, "ValueError") ELSE s
       ELSE IF HasDoc(wrapped_id) /\ GetDoc(wrapped_id).type \in {"Question", "Note"}
       THEN IF wrapped_id \notin InboxIds(s) THEN s
            ELSE IF get_inbox_object_by_ap_id(s, wrapped_id).ap_actor_id # from_actor
            THEN s
            ELSE InboxSet(s, wrapped_id, "updated", update_activity.updated)
       ELSE s

_handle_undo_activity(s, from_actor, undo_id, to_undo_id) ==
    LET ap_activity_to_undo == get_inbox_object_by_ap_id(s, to_undo_id)
        obj == ap_activity_to_undo.activity_object_ap_id
        s1 == InboxSet(InboxSet(s, to_undo_id, "undone_by_inbox_object_id", undo_id),
                       to_undo_id, "is_deleted", TRUE)
    IN IF from_actor # ap_activity_to_undo.ap_actor_id THEN s
       ELSE IF ap_activity_to_undo.ap_type = "Follow"
       THEN AddNotification(
                [s1 EXCEPT !.followers = {f \in @ : f.inbox_object_id # to_undo_id}],
                Notification("unfollow", from_actor, NONE, NONE))
       ELSE IF ap_activity_to_undo.ap_type = "Like"
       THEN IF obj = NONE THEN Raise(s1, "ValueError")
            ELSE IF obj \notin OutboxApIds(s1) THEN s1
            ELSE AddNotification(OutboxAdd(s1, obj, "likes_count", -1),
                                 Notification("undo_like", from_actor, to_undo_id, obj))
       ELSE IF ap_activity_to_undo.ap_type = "Announce"
       THEN IF obj = NONE THEN Raise(s1, "ValueError")
            ELSE IF IsLocal(obj) /\ obj \in OutboxApIds(s1)
                 THEN AddNotification(OutboxAdd(s1, obj, "announces_count", -1),
                                      Notification("undo_announce", from_actor, to_undo_id, obj))
                 ELSE s1
       ELSE s1

\* ap_object.is_poll_ended: now() > endTime
is_poll_ended(question, now) == now > question.endTime

\* a tally that counts answers where the code counts distinct actors
VoteCountsAnswers(s, answer_id, question_id, now) ==
    LET question == get_outbox_object_by_ap_id(s, question_id)
        answer == get_inbox_object_by_ap_id(s, answer_id)
        s1 == InboxSet(s, answer_id, "is_transient", TRUE)
        s2 == [s1 EXCEPT !.poll_answers = @ \cup
                  {[outbox_object_id |-> question_id, inbox_object_id |-> answer_id,
                    actor_id |-> answer.ap_actor_id, name |-> answer.name]}]
        recorded == {pa \in s2.poll_answers : pa.outbox_object_id = question_id}
        items == [i \in DOMAIN question.poll_items |->
                     [name |-> question.poll_items[i].name,
                      totalItems |-> Cardinality({pa \in recorded :
                                        pa.name = question.poll_items[i].name})]]
        s3 == OutboxSet(OutboxSet(s2, question_id, "votersCount", Cardinality(recorded)),
                        question_id, "poll_items", items)
    IN IF is_poll_ended(question, now) THEN s
       ELSE IF answer.name \notin {question.poll_items[i].name :
                                      i \in DOMAIN question.poll_items}
            THEN s
       ELSE EnqueueAll(s3, _compute_recipients(s3, question), question_id, NONE)

\* a vote handler that records the answer whenever the option is declared
VoteIgnoresEndTime(s, answer_id, question_id, now) ==
    LET question == get_outbox_object_by_ap_id(s, question_id)
        answer == get_inbox_object_by_ap_id(s, answer_id)
        s1 == InboxSet(s, answer_id, "is_transient", TRUE)
        s2 == [s1 EXCEPT !.poll_answers = @ \cup
                  {[outbox_object_id |-> question_id, inbox_object_id |-> answer_id,
                    actor_id |-> answer.ap_actor_id, name |-> answer.name]}]
        recorded == {pa \in s2.poll_answers : pa.outbox_object_id = question_id}
        items == [i \in DOMAIN question.poll_items |->
                     [name |-> question.poll_items[i].name,
                      totalItems |-> Cardinality({pa \in recorded :
                                        pa.name = question.poll_items[i].name})]]
        s3 == OutboxSet(OutboxSet(s2, question_id, "votersCount",
                                  Cardinality({pa.actor_id : pa \in recorded})),
                        question_id, "poll_items", items)
    IN IF answer.name \notin {question.poll_items[i].name :
                                 i \in DOMAIN question.poll_items}
       THEN s
       ELSE EnqueueAll(s3, _compute_recipients(s3, question), question_id, NONE)

_handle_vote_answer(s, answer_id, question_id, now) ==
    LET question == get_outbox_object_by_ap_id(s, question_id)
        answer == get_inbox_object_by_ap_id(s, answer_id)
        answer_name == answer.name
        s1 == InboxSet(s, answer_id, "is_transient", TRUE)
        s2 == [s1 EXCEPT !.poll_answers = @ \cup
                  {[outbox_object_id |-> question_id, inbox_object_id |-> answer_id,
                    actor_id |-> answer.ap_actor_id, name |-> answer_name]}]
        recorded == {pa \in s2.poll_answers : pa.outbox_object_id = question_id}
        voters_count == Cardinality({pa.actor_id : pa \in recorded})
        all_answers_count(n) == Cardinality({pa \in recorded : pa.name = n})
        items == [i \in DOMAIN question.poll_items |->
                     [name |-> question.poll_items[i].name,
                      totalItems |-> all_answers_count(question.poll_items[i].name)]]
        s3 == OutboxSet(OutboxSet(s2, question_id, "votersCount", voters_count),
                        question_id, "poll_items", items)
        recipients == _compute_recipients(s3, question)
    IN IF is_poll_ended(question, now) THEN s
       ELSE IF question.poll_items = <<>> THEN Raise(s, "ValueError")
       ELSE IF answer_name \notin {question.poll_items[i].name : i \in DOMAIN question.poll_items}
            THEN s
       ELSE EnqueueAll(s3, recipients, question_id, NONE)

\* a lookup that stops at the object it is given
RootWithoutWalk(s, ap_id, ap_context, in_reply_to, is_root, depth) ==
    [s |-> s,
     root |-> IF ap_context # NONE THEN ap_context ELSE "microblogpub:root:" \o ap_id]

\* fetch_conversation_root(obj, is_root), obj given by its ap_id, ap_context
\* and in_reply_to: one call per level of depth.  A call nested deeper than
\* the interpreter allows ends in RecursionError.
RECURSIVE fetch_conversation_root(_, _, _, _, _, _)
fetch_conversation_root(s, ap_id, ap_context, in_reply_to, is_root, depth) ==
    IF depth > RecursionLimit THEN [s |-> Raise(s, "RecursionError"), root |-> NONE]
    ELSE IF in_reply_to = NONE \/ is_root
    THEN [s |-> s,
          root |-> IF ap_context # NONE THEN ap_context
                   ELSE "microblogpub:root:" \o ap_id]
    ELSE IF InAnybox(s, in_reply_to)
    THEN fetch_conversation_root(s, in_reply_to,
             get_anybox_object_by_ap_id(s, in_reply_to).ap_context,
             get_anybox_object_by_ap_id(s, in_reply_to).in_reply_to, FALSE, depth + 1)
    ELSE IF in_reply_to \in Unreachable
    THEN [s |-> Raise(s, "HTTPStatusError"), root |-> NONE]
    ELSE IF Fetchable(in_reply_to)
    THEN fetch_conversation_root(fetch_actor(s, ap_fetch(in_reply_to).actor), in_reply_to,
             ap_fetch(in_reply_to).context,
             ap_fetch(in_reply_to).inReplyTo, FALSE, depth + 1)
    ELSE fetch_conversation_root(s, ap_id, ap_context, in_reply_to, TRUE, depth + 1)

\* save_object_to_inbox: the row of an object that was looked up, hidden from
\* the stream and related to nothing
save_object_to_inbox(s, raw_object, now) ==
    IF fetch_conversation_root(fetch_actor(s, raw_object.actor), raw_object.id,
                               raw_object.context, raw_object.inReplyTo, FALSE, 0).s.exc # ""
    THEN fetch_conversation_root(fetch_actor(s, raw_object.actor), raw_object.id,
                                 raw_object.context, raw_object.inReplyTo, FALSE, 0).s
    ELSE [fetch_conversation_root(fetch_actor(s, raw_object.actor), raw_object.id,
                                  raw_object.context, raw_object.inReplyTo, FALSE, 0).s
             EXCEPT !.inbox = @ \cup
                 {[InboxObject(raw_object, NONE, NONE, now) EXCEPT
                      !.conversation =
                          fetch_conversation_root(fetch_actor(s, raw_object.actor),
                              raw_object.id, raw_object.context, raw_object.inReplyTo,
                              FALSE, 0).root]}]

\* the except clause around a best-effort step: the error is logged, what
\* the step had written stays in the session
Logged(s) == [s EXCEPT !.exc = ""]

\* _prefetch_actor_outbox from the activity at the head of `activities` on:
\* up to 5 notes of the actor's outbox are saved, top-level ones are shown
RECURSIVE PrefetchFrom(_, _, _, _)
PrefetchFrom(s, activities, saved, now) ==
    IF activities = <<>> \/ saved >= 5 THEN s
    ELSE IF ~Fetchable(Head(activities)) THEN Raise(s, "ObjectNotFoundError")
    ELSE IF ap_fetch(Head(activities)).type # "Create"
    THEN PrefetchFrom(s, Tail(activities), saved, now)
    ELSE LET obj == GetDoc(ap_fetch(Head(activities)).object)
             s1 == IF obj.id \in InboxIds(s) THEN s ELSE save_object_to_inbox(s, obj, now)
         IN IF s1.exc # "" THEN s1
            ELSE PrefetchFrom(IF obj.inReplyTo = NONE
                              THEN InboxSet(s1, obj.id, "is_hidden_from_stream", FALSE)
                              ELSE s1,
                              Tail(activities), saved + 1, now)

_prefetch_actor_outbox(s, actor, now) ==
    IF actor \in OutboxUnavailable THEN Raise(s, "HTTPStatusError")
    ELSE PrefetchFrom(s, OutboxCollection(actor), 0, now)

\* an Accept / Reject branch that takes any local activity for a Follow
AcceptAnyActivity(s, ap_type, actor, activity_id, relates_out, now) ==
    IF relates_out = NONE THEN s
    ELSE LET s1 == AddNotification(s, Notification(
                       IF ap_type = "Accept" THEN "follow_request_accepted"
                       ELSE "follow_request_rejected", actor, activity_id, NONE))
         IN IF ap_type = "Accept"
            THEN [s1 EXCEPT !.following = @ \cup
                     {[ap_actor_id |-> actor, outbox_object_id |-> relates_out]}]
            ELSE [s1 EXCEPT !.following = {f \in @ : f.ap_actor_id # actor}]

\* the Accept / Reject branch of save_to_inbox
HandleAcceptReject(s, ap_type, actor, activity_id, relates_out, now) ==
    IF relates_out = NONE THEN s
    ELSE IF get_outbox_object_by_ap_id(s, relates_out).ap_type # "Follow" THEN s
    ELSE LET s1 == AddNotification(s, Notification(
                       IF ap_type = "Accept" THEN "follow_request_accepted"
                       ELSE "follow_request_rejected", actor, activity_id, NONE))
         IN IF ap_type = "Accept"
            THEN IF \E f \in s1.following : f.ap_actor_id = actor
                 THEN Raise(s1, "IntegrityError")
                 ELSE Logged(_prefetch_actor_outbox(
                          [s1 EXCEPT !.following = @ \cup
                              {[ap_actor_id |-> actor, outbox_object_id |-> relates_out]}],
                          actor, now))
            ELSE [s1 EXCEPT !.following = {f \in @ : f.ap_actor_id # actor}]


\* _process_note_object once the conversation is resolved: the row is
\* added and the parent's counter, the vote or the forwarding follow
\* a stream rule that hides mentions like any other note
HiddenIgnoresMention(is_reply, is_from_following, is_mention, is_local_reply) ==
    ~((~is_reply /\ is_from_following) \/ is_local_reply)

\* is_hidden_from_stream of a note that _process_note_object stores
HiddenFromStream(is_reply, is_from_following, is_mention, is_local_reply) ==
    ~((~is_reply /\ is_from_following) \/ is_mention \/ is_local_reply)

\* the try/except around the processing of a quoted object: a failure is
\* logged and the quoting note stays as it was
QuotedOrLogged(before, quoting_id, quoted_id, after) ==
    IF after.exc # "" THEN before
    ELSE InboxSet(after, quoting_id, "quoted_inbox_object_id", quoted_id)

RECURSIVE _process_note_object(_, _, _, _, _, _, _)

AddNoteObject(s, conversation, parent_id, from_actor, ro, forwarded_by_actor, process_quoted_url, now) ==
    LET parent_activity == get_inbox_object_by_ap_id(s, parent_id)
        is_from_following == ro.actor \in {f.ap_actor_id : f \in s.following}
        is_reply == ro.inReplyTo # NONE
        is_local_reply == ro.inReplyTo # NONE /\ IsLocal(ro.inReplyTo) /\ ro.content
        is_mention == ID \in ro.tag
        inbox_object ==
            [InboxObject(ro, parent_id, NONE, now) EXCEPT
                !.ap_actor_id = from_actor,
                !.is_hidden_from_stream =
                    HiddenFromStream(is_reply, is_from_following, is_mention,
                                     is_local_reply),
                !.replies_count = _get_replies_count(s, ro.id),
                !.conversation = conversation]
        s1 == [s EXCEPT !.inbox = @ \cup {inbox_object}]
        s2 == InboxSet(s1, parent_id, "relates_to_inbox_object_id", ro.id)
        known == ro.inReplyTo # NONE /\ InAnybox(s2, ro.inReplyTo)
        replied_object == get_anybox_object_by_ap_id(s2, ro.inReplyTo)
        s3 == IF ~known THEN s2
              ELSE IF IsLocal(ro.inReplyTo)
                   THEN IF replied_object.ap_type = "Question" /\ ro.name # NONE
                        THEN _handle_vote_answer(s2, ro.id, ro.inReplyTo, now)
                        ELSE OutboxSet(s2, ro.inReplyTo, "replies_count",
                                       _get_replies_count(s2, ro.inReplyTo))
                   ELSE InboxSet(s2, ro.inReplyTo, "replies_count",
                                 _get_replies_count(s2, ro.inReplyTo))
        skip_actors == {parent_activity.ap_actor_id} \cup
                       (IF forwarded_by_actor = NONE THEN {} ELSE {forwarded_by_actor})
        s4 == IF s3.exc = "" /\ known /\ parent_activity.ap_type = "Create"
                 /\ IsLocal(ro.inReplyTo) /\ replied_object.ap_type # "Question"
                 /\ parent_activity.has_ld_signature
              THEN EnqueueAll(s3, _get_followers_recipients(s3, skip_actors),
                              NONE, parent_id)
              ELSE s3
        s5 == IF s4.exc = "" /\ is_mention
              THEN AddNotification(s4, Notification("mention", from_actor, ro.id, NONE))
              ELSE s4
    IN IF ro.id \in InboxIds(s) THEN Raise(s, "IntegrityError")
       ELSE IF s5.exc # "" \/ ro.quoteUrl = NONE \/ ~process_quoted_url
               \/ ~Fetchable(ro.quoteUrl)
       THEN s5
       ELSE QuotedOrLogged(
                fetch_actor(s5, ap_fetch(ro.quoteUrl).actor), ro.id, ro.quoteUrl,
                _process_note_object(fetch_actor(s5, ap_fetch(ro.quoteUrl).actor),
                                     ro.id, ap_fetch(ro.quoteUrl).actor,
                                     ap_fetch(ro.quoteUrl), NONE, FALSE, now))

_process_note_object(s, parent_id, from_actor, ro, forwarded_by_actor, process_quoted_url, now) ==
    IF ~(process_quoted_url /\ get_inbox_object_by_ap_id(s, parent_id).quote_url = ro.id)
       /\ get_inbox_object_by_ap_id(s, parent_id).ap_type \notin {"Create", "Read"}
    THEN Raise(s, "ValueError")
    ELSE IF fetch_conversation_root(s, ro.id, ro.context, ro.inReplyTo, FALSE, 0).s.exc # ""
    THEN fetch_conversation_root(s, ro.id, ro.context, ro.inReplyTo, FALSE, 0).s
    ELSE AddNoteObject(fetch_conversation_root(s, ro.id, ro.context, ro.inReplyTo, FALSE, 0).s,
                       fetch_conversation_root(s, ro.id, ro.context, ro.inReplyTo, FALSE, 0).root,
                       parent_id, from_actor, ro, forwarded_by_actor,
                       process_quoted_url, now)

\* get_inbox_delete_for_activity_object_ap_id
InboxDeletesFor(s, ap_id) ==
    {r \in s.inbox : r.ap_type = "Delete" /\ r.activity_object_ap_id = ap_id}

_handle_create_activity(s, from_actor, create_id, forwarded_by_actor, now) ==
    LET create_activity == get_inbox_object_by_ap_id(s, create_id)
        wrapped_object == GetDoc(create_activity.activity_object_ap_id)
        deletes == InboxDeletesFor(s, wrapped_object.id)
        delete_object == CHOOSE d \in deletes : TRUE
    IN IF create_activity.ap_actor_id # wrapped_object.actor THEN Raise(s, "ValueError")
       ELSE IF Cardinality(deletes) > 1 THEN Raise(s, "MultipleResultsFound")
       ELSE IF deletes # {}
            THEN IF delete_object.ap_actor_id # from_actor THEN s
                 ELSE InboxSet(s, create_id, "is_deleted", TRUE)
       ELSE _process_note_object(s, create_id, from_actor, wrapped_object,
                                 forwarded_by_actor, TRUE, now)

\* a reversion that leaves the local activities on the deleted object alone
RevertWithoutCascade(s, delete_id, deleted_id, forwarded_by_actor) ==
    LET deleted_ap_object == get_inbox_object_by_ap_id(s, deleted_id)
        target == deleted_ap_object.activity_object_ap_id
    IN IF deleted_ap_object.ap_type = "Like" /\ target # NONE /\ target \in OutboxApIds(s)
       THEN OutboxAdd(s, target, "likes_count", -1)
       ELSE s

_revert_side_effect_for_deleted_object(s, delete_id, deleted_id, forwarded_by_actor) ==
    LET delete_activity == get_inbox_object_by_ap_id(s, delete_id)
        deleted_ap_object == get_inbox_object_by_ap_id(s, deleted_id)
        parent == deleted_ap_object.in_reply_to
        target == deleted_ap_object.activity_object_ap_id
        known == parent # NONE /\ InAnybox(s, parent)
        is_delete_needs_to_be_forwarded == known /\ IsLocal(parent)
        \* the parent's counter is recomputed from a live count
        s1 == IF ~known THEN s
              ELSE IF IsLocal(parent)
                   THEN OutboxSet(s, parent, "replies_count", _get_replies_count(s, parent))
                   ELSE InboxSet(s, parent, "replies_count", _get_replies_count(s, parent))
        s2 == IF deleted_ap_object.ap_type = "Like" /\ target # NONE
              THEN IF target \in OutboxApIds(s1)
                   THEN OutboxAdd(s1, target, "likes_count", -1) ELSE s1
              ELSE IF deleted_ap_object.ap_type = "Annouce" /\ target # NONE
                   THEN IF target \in OutboxApIds(s1)
                        THEN OutboxAdd(s1, target, "announces_count", -1) ELSE s1
                   ELSE s1
        \* Delete any Like/Announce
        s3 == [s2 EXCEPT !.outbox =
                  {IF r.activity_object_ap_id = deleted_id
                   THEN [r EXCEPT !.is_deleted = TRUE] ELSE r : r \in @}]
        skip_actors == {delete_activity.ap_actor_id} \cup
                       (IF forwarded_by_actor = NONE THEN {} ELSE {forwarded_by_actor})
    IN IF delete_activity.activity_object_ap_id = deleted_id
          /\ delete_activity.has_ld_signature
          /\ is_delete_needs_to_be_forwarded
       THEN EnqueueAll(s3, _get_followers_recipients(s3, skip_actors), NONE, delete_id)
       ELSE s3

\* for inbox_object in inbox_objects: revert its side effects, mark it deleted
RECURSIVE DeleteObjectsOf(_, _, _)
DeleteObjectsOf(s, delete_id, ids) ==
    IF ids = {} THEN s
    ELSE LET id == CHOOSE i \in ids : TRUE
             s1 == _revert_side_effect_for_deleted_object(s, delete_id, id, NONE)
         IN DeleteObjectsOf(InboxSet(s1, id, "is_deleted", TRUE), delete_id, ids \ {id})

_handle_delete_activity(s, from_actor, delete_id, relates_in, forwarded_by_actor) ==
    LET delete_activity == get_inbox_object_by_ap_id(s, delete_id)
        target == delete_activity.activity_object_ap_id
    IN IF relates_in # NONE
       THEN IF from_actor # get_inbox_object_by_ap_id(s, relates_in).ap_actor_id THEN s
            ELSE InboxSet(_revert_side_effect_for_deleted_object(
                              s, delete_id, relates_in, forwarded_by_actor),
                          relates_in, "is_deleted", TRUE)
       ELSE IF target = NONE \/ ~KnownActor(s, target) THEN s
       ELSE IF from_actor # target THEN s
       ELSE LET s1 == [s EXCEPT
                          !.followers = {f \in @ : f.ap_actor_id # target},
                          !.following = {f \in @ : f.ap_actor_id # target},
                          !.actors = {IF a.ap_id = target
                                      THEN [a EXCEPT !.is_deleted = TRUE] ELSE a : a \in @}]
                inbox_objects == {r.ap_id : r \in {x \in s1.inbox :
                                     x.ap_actor_id = target /\ ~x.is_deleted}}
            IN DeleteObjectsOf(s1, delete_id, inbox_objects)

\* a Move handler that trusts the target without reading its alsoKnownAs
MoveWithoutAliasCheck(s, from_actor, move_id) ==
    LET move_activity == get_inbox_object_by_ap_id(s, move_id)
        old_actor_id == move_activity.activity_object_ap_id
        new_actor_id == move_activity.target
        s1 == fetch_actor(s, new_actor_id)
        followings == {f \in s1.following : f.ap_actor_id = old_actor_id}
        s2 == _send_undo(s1, (CHOOSE f \in followings : TRUE).outbox_object_id)
        s3 == IF \E f \in s2.following : f.ap_actor_id = new_actor_id THEN s2
              ELSE _send_follow(s2, new_actor_id)
    IN IF old_actor_id # from_actor THEN s
       ELSE IF new_actor_id = NONE THEN s
       ELSE IF followings = {} THEN s1
       ELSE IF s2.exc # "" THEN s2
       ELSE AddNotification(s3, Notification("move", new_actor_id, move_id, NONE))

_handle_move_activity(s, from_actor, move_id) ==
    LET move_activity == get_inbox_object_by_ap_id(s, move_id)
        old_actor_id == move_activity.activity_object_ap_id
        new_actor_id == move_activity.target
        s1 == fetch_actor(s, new_actor_id)
        followings == {f \in s1.following : f.ap_actor_id = old_actor_id}
        s2 == _send_undo(s1, (CHOOSE f \in followings : TRUE).outbox_object_id)
        s3 == IF \E f \in s2.following : f.ap_actor_id = new_actor_id THEN s2
              ELSE _send_follow(s2, new_actor_id)
    IN IF old_actor_id # from_actor THEN s
       ELSE IF new_actor_id = NONE THEN s
       ELSE IF old_actor_id \notin alsoKnownAs(new_actor_id) THEN s1
       ELSE IF followings = {} THEN s1
       ELSE IF s2.exc # "" THEN s2
       ELSE AddNotification(s3, Notification("move", new_actor_id, move_id, NONE))

_handle_announce_activity(s, actor, announce_id, relates_out, relates_in, now) ==
    LET is_from_following == actor \in {f.ap_actor_id : f \in s.following}
        target == get_inbox_object_by_ap_id(s, announce_id).activity_object_ap_id
        known == get_inbox_object_by_ap_id(s, relates_in)
        dup_count == Cardinality({r \in s.inbox :
                        /\ r.ap_type = "Announce"
                        /\ r.ap_published_at > now - 1
                        /\ r.relates_to_inbox_object_id = relates_in
                        /\ ~r.is_hidden_from_stream})
        fetched == GetDoc(target)
        announced_raw_object == IF fetched.type = "Create" THEN GetDoc(fetched.object)
                                ELSE fetched
        s1 == fetch_actor(s, announced_raw_object.actor)
        s2 == [s1 EXCEPT !.inbox = @ \cup
                  {InboxObject(announced_raw_object, NONE, NONE, now)}]
    IN IF relates_out # NONE
       THEN AddNotification(OutboxAdd(s, relates_out, "announces_count", 1),
                            Notification("announce", actor, announce_id, relates_out))
       ELSE IF relates_in # NONE
       THEN IF (~known.is_hidden_from_stream /\ now - known.ap_published_at < 1)
               \/ dup_count > 0
            THEN InboxSet(s, announce_id, "is_hidden_from_stream", TRUE)
            ELSE InboxSet(s, announce_id, "is_hidden_from_stream", ~is_from_following)
       ELSE IF target = NONE THEN Raise(s, "ValueError")
       ELSE IF ~HasDoc(target) THEN Raise(s, "ObjectNotFoundError")
       ELSE IF announced_raw_object.id \in InboxIds(s) THEN Raise(s, "IntegrityError")
       ELSE InboxSet(InboxSet(s2, announce_id, "relates_to_inbox_object_id",
                              announced_raw_object.id),
                     announce_id, "is_hidden_from_stream", ~is_from_following)

----------------------------------------------------------------------------
(* save_to_inbox *)

\* ldsig.verify_signature
verify_signature(raw) == raw.sig = "valid"

\* remote actors whose document cannot be fetched, and the server of a1..a3
\* (s1) and of a5 (s5)
Gone == {"a4"}
server(ap_actor_id) == IF ap_actor_id = "a5" THEN "s5" ELSE "s1"
BLOCKED_SERVERS == {"s5"}

\* a provenance gate that does not look at the block flag or the block-list
ProvenanceIgnoresBlocks(s, raw_object) ==
    IF \/ raw_object.actor \in Gone
       \/ \E a \in s.actors : a.ap_id = raw_object.actor /\ a.is_deleted
    THEN "actor_not_found"
    ELSE IF raw_object.id = NONE THEN "transient"
    ELSE "proceed"

\* save_to_inbox, provenance: the reason the call returns, or "proceed"
Provenance(s, raw_object) ==
    IF \/ raw_object.actor \in Gone
       \/ \E a \in s.actors : a.ap_id = raw_object.actor /\ a.is_deleted
    THEN "actor_not_found"
    ELSE IF server(raw_object.actor) \in BLOCKED_SERVERS THEN "server_blocked"
    ELSE IF raw_object.id = NONE THEN "transient"
    ELSE IF \E a \in s.actors : a.ap_id = raw_object.actor /\ a.is_blocked
    THEN "actor_blocked"
    ELSE "proceed"

\* a forwarding check that trusts the sender
ForwardingTrustsSender(raw_object, sent_by_ap_actor_id) == "proceed"

\* save_to_inbox, forwarded activities: "HTTPException" is the 401
Forwarding(raw_object, sent_by_ap_actor_id) ==
    IF sent_by_ap_actor_id = raw_object.actor \/ verify_signature(raw_object)
    THEN "proceed"
    ELSE IF ~Fetchable(raw_object.id) THEN "HTTPException"
    ELSE IF ap_fetch(raw_object.id).id # raw_object.id THEN "abandoned"
    ELSE "proceed"

\* the raw object the call goes on with: the fetched document takes the
\* place of a forwarded one whose signature did not verify; the actor stays
\* the one resolved from the delivered document
Refetched(raw_object, sent_by_ap_actor_id) ==
    IF sent_by_ap_actor_id = raw_object.actor \/ verify_signature(raw_object)
    THEN raw_object
    ELSE [ap_fetch(raw_object.id) EXCEPT !.actor = raw_object.actor]

\* the pre-checks without the lookup of an already stored ap_id
PrecheckWithoutLookup(s, raw_object, sent_by_ap_actor_id) ==
    IF Provenance(s, raw_object) # "proceed" THEN Provenance(s, raw_object)
    ELSE Forwarding(raw_object, sent_by_ap_actor_id)

\* save_to_inbox up to and including the duplicate pre-check: the reason
\* the call returns early, or "proceed"
Precheck(s, raw_object, sent_by_ap_actor_id) ==
    IF Provenance(s, raw_object) # "proceed" THEN Provenance(s, raw_object)
    ELSE IF Forwarding(raw_object, sent_by_ap_actor_id) # "proceed"
    THEN Forwarding(raw_object, sent_by_ap_actor_id)
    ELSE IF raw_object.id \in InboxIds(s) THEN "duplicate"
    ELSE "proceed"

\* save_to_inbox from the cross-reference resolution to the dispatch; the
\* caller commits the result unless exc is set
DispatchStored(s1, raw_object, relates_in, relates_out, forwarded_by_actor, now) ==
    LET actor == raw_object.actor
        id == raw_object.id
        ap_type == raw_object.type
    IN IF ap_type = "Create"
       THEN _handle_create_activity(s1, actor, id, forwarded_by_actor, now)
       ELSE IF ap_type = "Move"
       THEN _handle_move_activity(s1, actor, id)
       ELSE IF ap_type = "Delete"
       THEN _handle_delete_activity(s1, actor, id, relates_in, forwarded_by_actor)
       ELSE IF ap_type = "Update"
       THEN _handle_update_activity(s1, actor, id)
       ELSE IF ap_type = "Follow"
       THEN _handle_follow_follow_activity(s1, actor, id)
       ELSE IF ap_type = "Undo"
       THEN IF relates_in # NONE THEN _handle_undo_activity(s1, actor, id, relates_in)
            ELSE s1
       ELSE IF ap_type \in {"Accept", "Reject"}
       THEN HandleAcceptReject(s1, ap_type, actor, id, relates_out, now)
       ELSE IF ap_type = "EmojiReact"
       THEN IF relates_out = NONE THEN InboxDelete(s1, id) ELSE s1
       ELSE IF ap_type = "Like"
       THEN _handle_like_activity(s1, actor, id, relates_out)
       ELSE IF ap_type = "Announce"
       THEN _handle_announce_activity(s1, actor, id, relates_out, relates_in, now)
       ELSE IF ap_type = "View"
       THEN InboxDelete(s1, id)
       ELSE s1

\* the row of the activity is added with the rows it relates to, then the
\* handler of its type runs on the store that holds it
StoreAndDispatch(s, raw_object, relates_in, relates_out, forwarded_by_actor, now) ==
    DispatchStored([s EXCEPT !.inbox = @ \cup
                       {InboxObject(raw_object, relates_in, relates_out, now)}],
                   raw_object, relates_in, relates_out, forwarded_by_actor, now)

\* get_anybox_object_by_ap_id(activity_object_ap_id) of save_to_inbox
RelatesTo(s, target, local) ==
    IF target # NONE /\ IsLocal(target) = local
       /\ target \in (IF local THEN OutboxApIds(s) ELSE InboxIds(s))
    THEN target ELSE NONE

Dispatch(s0, raw_object, sent_by_ap_actor_id, now) ==
    IF raw_object.id \in InboxIds(s0)
    THEN Raise(fetch_actor(s0, raw_object.actor), "IntegrityError")
    ELSE StoreAndDispatch(fetch_actor(s0, raw_object.actor), raw_object,
                          RelatesTo(s0, raw_object.object, FALSE),
                          RelatesTo(s0, raw_object.object, TRUE),
                          IF sent_by_ap_actor_id # raw_object.actor
                          THEN sent_by_ap_actor_id ELSE NONE,
                          now)

\* a handler that committed as it went would leave its pending writes
OnErrorKeepsPending(committed, pending) == pending

\* an exception leaves the function before db_session.commit(): what is
\* committed is the store the call started from
OnError(committed, pending) == committed

\* what a call leaves in `last`; again: the call before it was save_to_inbox
\* with the same raw activity; by: who called (the local actor, or the actor
\* whose server delivered the activity)
Result(op, id, outcome) ==
    [op |-> op, id |-> id, outcome |-> outcome,
     again |-> (op = "save_to_inbox" /\ last.op = op /\ last.id = id),
     by |-> ID]

\* the store after the call, and how it ended
\* the end of a unit of work: commit, or roll back and report the exception
EndOfTransaction(s, done) ==
    IF done.exc # "" THEN [s |-> OnError(s, done), outcome |-> done.exc]
    ELSE [s |-> done, outcome |-> "committed"]

save_to_inbox(s, raw_object, sent_by_ap_actor_id, now) ==
    IF Precheck(s, raw_object, sent_by_ap_actor_id) # "proceed"
    THEN [s |-> s, outcome |-> Precheck(s, raw_object, sent_by_ap_actor_id)]
    ELSE EndOfTransaction(s, Dispatch(s, Refetched(raw_object, sent_by_ap_actor_id),
                                      sent_by_ap_actor_id, now))

----------------------------------------------------------------------------
(* Authoring *)

\* the addressing send_create derives from the requested visibility
AddressingTo(visibility, mentioned_actor_ap_ids) ==
    IF visibility = "public" THEN {AS_PUBLIC}
    ELSE IF visibility \in {"unlisted", "followers-only"} THEN {FOLLOWERS}
    ELSE mentioned_actor_ap_ids

AddressingCc(visibility, mentioned_actor_ap_ids) ==
    IF visibility = "public" THEN {FOLLOWERS} \cup mentioned_actor_ap_ids
    ELSE IF visibility = "unlisted" THEN {AS_PUBLIC} \cup mentioned_actor_ap_ids
    ELSE IF visibility = "followers-only" THEN mentioned_actor_ap_ids
    ELSE {}

\* markdownify resolves every mentioned actor through fetch_actor
RECURSIVE FetchActors(_, _)
FetchActors(s, ap_ids) ==
    IF ap_ids = {} THEN s
    ELSE LET a == CHOOSE x \in ap_ids : TRUE
         IN FetchActors(fetch_actor(s, a), ap_ids \ {a})

\* markdownify(source): the rendered content and the actors it mentions
markdownify(source) ==
    [content |-> "<p>" \o source \o "</p>",
     mentioned_actors |-> IF source = "v2 @a2" THEN {"a2"} ELSE {}]

\* the text of a note as it is first written, and the texts of its edits
FirstSource == "v0"
Sources == {"v1", "v2 @a2"}

PollAnswers == <<"A", "B">>
PollDuration == 1

\* send_create's choice of context and conversation: a fresh context (the
\* uuid is one per note), the parent's context when it has one, and the
\* conversation root of a parent without context unless that lookup fails
NewContext(note_id) == ID \o "/contexts/" \o note_id

ReplyContext(s, note_id, in_reply_to_object, found) ==
    IF in_reply_to_object.ap_context # NONE
    THEN [s |-> s, context |-> in_reply_to_object.ap_context,
          conversation |-> in_reply_to_object.ap_context]
    ELSE [s |-> Logged(found.s), context |-> NewContext(note_id),
          conversation |-> IF found.s.exc # "" THEN NewContext(note_id)
                           ELSE found.root]

\* send_create from the save of the note on, ctx being the context and the
\* conversation chosen for it
SaveCreate(ctx, note_id, ap_type, in_reply_to, visibility, mentioned_actors, answers, poll_duration_in_minutes, now) ==
    LET obj == [OutboxObject(note_id, ap_type, NONE, in_reply_to,
                             AddressingTo(visibility, mentioned_actors),
                             AddressingCc(visibility, mentioned_actors))
                   EXCEPT !.ap_context = ctx.context,
                          !.conversation = ctx.conversation,
                          !.source = FirstSource,
                          !.content = markdownify(FirstSource).content,
                          !.published = now,
                          !.poll_items =
                              IF ap_type = "Question"
                              THEN [i \in DOMAIN answers |->
                                       [name |-> answers[i], totalItems |-> 0]]
                              ELSE <<>>,
                          !.endTime = IF ap_type = "Question"
                                      THEN now + poll_duration_in_minutes ELSE 0]
        s1 == save_outbox_object(ctx.s, obj)
        s2 == EnqueueAll(s1, _compute_recipients(s1, obj), note_id, NONE)
        \* first commit; then the parent's counter is refreshed and committed
        new_replies_count == _get_replies_count(s2, in_reply_to)
    IN IF in_reply_to = NONE THEN s2
       ELSE IF IsLocal(in_reply_to)
            THEN OutboxSet(s2, in_reply_to, "replies_count", new_replies_count)
            ELSE InboxSet(s2, in_reply_to, "replies_count", new_replies_count)

\* the parent of a reply, as send_create looks it up
ParentContext(s, note_id, in_reply_to_object) ==
    ReplyContext(s, note_id, in_reply_to_object,
                 fetch_conversation_root(s, in_reply_to_object.ap_id,
                     in_reply_to_object.ap_context, in_reply_to_object.in_reply_to,
                     FALSE, 0))

send_create(s, ap_type, in_reply_to, visibility, mentioned_actors, poll_type, answers, poll_duration_in_minutes, now) ==
    IF in_reply_to # NONE /\ ~InAnybox(s, in_reply_to)
    THEN [s |-> s, outcome |-> "ValueError"]
    ELSE IF ap_type = "Question"
            /\ (Len(answers) < 2 \/ poll_type = NONE
                \/ poll_duration_in_minutes = 0)
    THEN [s |-> s, outcome |-> "ValueError"]
    ELSE [s |-> SaveCreate(
                    IF in_reply_to = NONE
                    THEN [s |-> FetchActors(s, mentioned_actors),
                          context |-> NewContext(NextOutboxId(s)),
                          conversation |-> NewContext(NextOutboxId(s))]
                    ELSE ParentContext(FetchActors(s, mentioned_actors), NextOutboxId(s),
                             get_anybox_object_by_ap_id(s, in_reply_to)),
                    NextOutboxId(s), ap_type, in_reply_to, visibility,
                    mentioned_actors, answers, poll_duration_in_minutes, now),
          outcome |-> "committed"]

\* outbox_object.ap_object, as far as an edit changes it
ApObject(outbox_object) ==
    [content |-> outbox_object.content, published |-> outbox_object.published,
     updated |-> outbox_object.updated]

\* an edit that keeps only the revision it has just replaced
SendUpdateKeepsLast(s, ap_id, source, now) ==
    LET outbox_object == get_outbox_object_by_ap_id(s, ap_id)
        s1 == FetchActors(s, markdownify(source).mentioned_actors)
    IN IF ap_id \notin OutboxApIds(s) THEN [s |-> s, outcome |-> "ValueError"]
       ELSE [s |-> [s1 EXCEPT !.outbox = {IF o.ap_id # ap_id THEN o
                        ELSE [o EXCEPT !.content = markdownify(source).content,
                                       !.updated = <<now>>, !.source = source,
                                       !.revisions =
                                           <<[ap_object |-> ApObject(o),
                                              source |-> o.source,
                                              updated |-> o.published]>>] : o \in @}],
             outcome |-> "committed"]

\* send_update: the revision is appended, the document rewritten with the
\* addressing, the context and the publication time it had, and the new
\* document is sent to the same recipients (no source of the model holds
\* an external link, so no webmention is sent)
send_update(s, ap_id, source, now) ==
    LET outbox_object == get_outbox_object_by_ap_id(s, ap_id)
        revisions == Append(outbox_object.revisions,
                         [ap_object |-> ApObject(outbox_object),
                          source |-> outbox_object.source,
                          updated |-> IF outbox_object.updated # <<>>
                                      THEN outbox_object.updated[1]
                                      ELSE outbox_object.published])
        s1 == FetchActors(s, markdownify(source).mentioned_actors)
        note == [outbox_object EXCEPT !.content = markdownify(source).content,
                                      !.updated = <<now>>,
                                      !.source = source,
                                      !.revisions = revisions]
        s2 == [s1 EXCEPT !.outbox = (@ \ {outbox_object}) \cup {note}]
    IN IF ap_id \notin OutboxApIds(s) THEN [s |-> s, outcome |-> "ValueError"]
       ELSE [s |-> EnqueueAll(s2, _compute_recipients(s2, note), ap_id, NONE),
             outcome |-> "committed"]

\* send_delete up to its first db_session.commit(): the Delete is saved and
\* the target marked, the recipients are not yet computed
send_delete_first_commit(s, ap_object_id) ==
    LET delete_id == NextOutboxId(s)
        delete == [OutboxObject(delete_id, "Delete", ap_object_id, NONE, {}, {})
                      EXCEPT !.relates_to_outbox_object_id = ap_object_id]
    IN OutboxSet(save_outbox_object(s, delete), ap_object_id, "is_deleted", TRUE)

\* a send_delete that drops the target's row
SendDeleteRemovesTarget(s, ap_object_id) ==
    LET delete_id == NextOutboxId(s)
        delete == [OutboxObject(delete_id, "Delete", ap_object_id, NONE, {}, {})
                      EXCEPT !.relates_to_outbox_object_id = ap_object_id]
        s1 == save_outbox_object(s, delete)
    IN IF ap_object_id \notin OutboxApIds(s)
       THEN [s |-> s, outcome |-> "ValueError"]
       ELSE [s |-> [s1 EXCEPT !.outbox = {o \in @ : o.ap_id # ap_object_id}],
             outcome |-> "committed"]

send_delete(s, ap_object_id) ==
    LET outbox_object_to_delete == get_outbox_object_by_ap_id(s, ap_object_id)
        delete_id == NextOutboxId(s)
        delete == [OutboxObject(delete_id, "Delete", ap_object_id, NONE, {}, {})
                      EXCEPT !.relates_to_outbox_object_id = ap_object_id]
        s1 == OutboxSet(save_outbox_object(s, delete), ap_object_id, "is_deleted", TRUE)
        \* first commit; then the deliveries and the parent's counter
        s2 == EnqueueAll(s1, _compute_recipients(s1, outbox_object_to_delete),
                         delete_id, NONE)
        parent == outbox_object_to_delete.in_reply_to
        new_replies_count == _get_replies_count(s2, parent)
        s3 == IF parent = NONE \/ ~InAnybox(s2, parent) THEN s2
              ELSE IF IsLocal(parent)
                   THEN OutboxSet(s2, parent, "replies_count",
                                  IF new_replies_count < 0 THEN 0 ELSE new_replies_count)
                   ELSE InboxSet(s2, parent, "replies_count",
                                 IF new_replies_count < 0 THEN 0 ELSE new_replies_count)
    IN IF ap_object_id \notin OutboxApIds(s)
       THEN [s |-> s, outcome |-> "ValueError"]
       ELSE [s |-> s3, outcome |-> "committed"]

send_follow(s, ap_actor_id) ==
    [s |-> _send_follow(s, ap_actor_id), outcome |-> "committed"]

----------------------------------------------------------------------------
(* Actions *)

\* a server that has received and published nothing yet
Empty ==
    /\ inbox = {}
    /\ outbox = {}
    /\ actors = {}
    /\ followers = {}
    /\ following = {}
    /\ notifications = EmptyBag
    /\ outgoing_activities = EmptyBag
    /\ poll_answers = {}
    /\ clock = 0
    /\ calls = {}
    /\ last = [op |-> "init", id |-> NONE, outcome |-> NONE, again |-> FALSE,
               by |-> NONE]

\* followers are accepted automatically unless the profile says otherwise
Init == Empty /\ config = [manually_approves_followers |-> FALSE]

\* room for the objects a call may author
CanAuthor == Cardinality(outbox) < MaxOutbox

\* allocate_outbox_id draws the id of a local object when it is authored: a
\* remote document can name a local object only once that object exists
Sendable(raw_object) ==
    \A id \in Refs(raw_object.id) :
        (IsLocal(id) /\ id \notin {ID, FOLLOWERS}) => \E o \in outbox : o.ap_id = id

\* one delivery, handled from the first line of save_to_inbox to its commit
\* the call returns: its store is the database, its outcome is recorded
Returns(op, id, r) ==
    /\ Commit(r.s)
    /\ last' = Result(op, id, r.outcome)

\* save_to_inbox returns to the server that delivered the activity
Delivered(id, sent_by_ap_actor_id, r) ==
    /\ Commit(r.s)
    /\ last' = [Result("save_to_inbox", id, r.outcome) EXCEPT !.by = sent_by_ap_actor_id]

SaveToInbox(raw_object, sent_by_ap_actor_id) ==
    /\ CanAuthor
    /\ Sendable(raw_object)
    /\ calls = {}
    /\ Delivered(raw_object.id, sent_by_ap_actor_id,
                 save_to_inbox(DB, raw_object, sent_by_ap_actor_id, clock))
    /\ UNCHANGED <<clock, calls, config>>

\* a delivery runs save_to_inbox up to the duplicate pre-check
BeginSaveToInbox(slot, raw_object, sent_by_ap_actor_id) ==
    /\ CanAuthor
    /\ Sendable(raw_object)
    /\ \A c \in calls : c.slot # slot
    /\ LET pre == Precheck(DB, raw_object, sent_by_ap_actor_id)
       IN IF pre = "proceed"
          THEN /\ calls' = calls \cup {[slot |-> slot, raw_object |-> raw_object,
                                        sent_by_ap_actor_id |-> sent_by_ap_actor_id]}
               /\ UNCHANGED last
          ELSE /\ last' = [Result("save_to_inbox", raw_object.id, pre)
                              EXCEPT !.by = sent_by_ap_actor_id]
               /\ UNCHANGED calls
    /\ UNCHANGED <<tables, clock, config>>

\* a delivery that passed the pre-check inserts its row, runs its handler
\* and commits; the store rejects a row whose ap_id is already there
FinishSaveToInbox(c) ==
    /\ c \in calls
    /\ Delivered(c.raw_object.id, c.sent_by_ap_actor_id,
                 EndOfTransaction(DB, Dispatch(DB, Refetched(c.raw_object,
                                                             c.sent_by_ap_actor_id),
                                               c.sent_by_ap_actor_id, clock)))
    /\ calls' = calls \ {c}
    /\ UNCHANGED <<clock, config>>

SendCreate(ap_type, in_reply_to, visibility, mentioned_actors) ==
    /\ CanAuthor
    /\ Returns("send_create", in_reply_to,
               send_create(DB, ap_type, in_reply_to, visibility, mentioned_actors,
                           "oneOf", PollAnswers, PollDuration, clock))
    /\ UNCHANGED <<clock, calls, config>>

\* the admin edits a note
SendUpdate(ap_id, source) ==
    /\ \E o \in outbox : /\ o.ap_id = ap_id /\ o.ap_type = "Note"
                         /\ Len(o.revisions) < MaxRevisions
    /\ Returns("send_update", ap_id, send_update(DB, ap_id, source, clock))
    /\ UNCHANGED <<clock, calls, config>>

SendDelete(ap_object_id) ==
    /\ CanAuthor
    /\ Returns("send_delete", ap_object_id,
               send_delete(DB, ap_object_id))
    /\ UNCHANGED <<clock, calls, config>>

SendFollow(ap_actor_id) ==
    /\ CanAuthor
    /\ Returns("send_follow", ap_actor_id,
               send_follow(DB, ap_actor_id))
    /\ UNCHANGED <<clock, calls, config>>

\* send_delete ends between its two commits: _compute_recipients or
\* new_outgoing_activity raises, or the process stops
SendDeleteInterrupted(ap_object_id) ==
    /\ CanAuthor
    /\ ap_object_id \in OutboxApIds(DB)
    /\ Commit(send_delete_first_commit(DB, ap_object_id))
    /\ last' = Result("send_delete", ap_object_id, "interrupted")
    /\ UNCHANGED <<clock, calls, config>>

\* send_create ends before its first commit: nothing of the call is kept
SendCreateInterrupted(in_reply_to) ==
    /\ CanAuthor
    /\ last.op # "send_create" \/ last.outcome # "interrupted"
    /\ Commit(DB)
    /\ last' = Result("send_create", in_reply_to, "interrupted")
    /\ UNCHANGED <<clock, calls, config>>

\* the admin blocks a known actor
BlockActor(ap_actor_id) ==
    /\ KnownActor(DB, ap_actor_id)
    /\ Commit([DB EXCEPT !.actors = {IF a.ap_id = ap_actor_id
                                     THEN [a EXCEPT !.is_blocked = TRUE] ELSE a : a \in @}])
    /\ last' = Result("block", ap_actor_id, "committed")
    /\ UNCHANGED <<clock, calls, config>>

\* time passes
Tick ==
    /\ clock < MaxClock
    /\ clock' = clock + 1
    /\ UNCHANGED <<tables, calls, last, config>>

Deliverable(ids) == {d \in RemoteDocs : d.id \in ids}

----------------------------------------------------------------------------
(* Specifications.  Each delivers a part of the remote documents.          *)

\* reactions to a local post
Reactions == Deliverable({"l1", "l2", "lx", "an1", "ul1", "ul1b", "v1"})

Next ==
    \/ \E raw \in Reactions : SaveToInbox(raw, raw.actor)
    \/ SendCreate("Note", NONE, "public", {})
    \/ SendDelete("o1")

Spec == Init /\ [][Next]_vars

\* follow requests in both directions, and a Create its sender does not own
Follows == Deliverable({"f1", "f1b", "f2", "fx", "uf1", "uf1b", "acc1", "acc1b", "cx"})

NextFollow ==
    \/ \E raw \in Follows : SaveToInbox(raw, raw.actor)
    \/ SendFollow("a1")

SpecFollow == Init /\ [][NextFollow]_vars

\* replies to local and remote objects
Replies == Deliverable({"c1", "c2", "cx", "d1", "d2"})

NextReplies ==
    \/ \E raw \in Replies : SaveToInbox(raw, raw.actor)
    \/ \E p \in {NONE, "o1", "r1"} : SendCreate("Note", p, "public", {})
    \/ \E id \in {"o1", "o2"} : SendDelete(id)

SpecReplies == Init /\ [][NextReplies]_vars

\* votes on a local Question
Votes == Deliverable({"cva1", "cva2", "cvb3", "cvb1", "cvc2"})

MaxQuestions == 1

NextPoll ==
    \/ \E raw \in Votes : SaveToInbox(raw, raw.actor)
    \/ Cardinality(outbox) < MaxQuestions /\ SendCreate("Question", NONE, "public", {"a3"})
    \/ Tick

SpecPoll == Init /\ [][NextPoll]_vars

\* an actor the local actor follows moves to another account
Moves == Deliverable({"acc1", "mv1", "mv1b", "mvx", "mvy"})

NextMove ==
    \/ \E raw \in Moves : SaveToInbox(raw, raw.actor)
    \/ outbox = {} /\ SendFollow("a1")

SpecMove == Init /\ [][NextMove]_vars

\* notes authored under every visibility, with and without a mention
VisibilityEnum == {"public", "unlisted", "followers-only", "direct"}

NextVisibility ==
    \E visibility \in VisibilityEnum, mentioned \in SUBSET {"a1"} :
        SendCreate("Note", NONE, visibility, mentioned)

SpecVisibility == Init /\ [][NextVisibility]_vars

\* activities forwarded by a3: signed (fl1), unsigned and served by their
\* origin (fl2, also in a copy the forwarder altered), badly signed and
\* not served (fl3), unsigned and served as the actor document (fl4); an
\* unsigned Follow served by its origin (ff2)
Forwardings ==
    Deliverable({"fl1", "fl2", "fl3", "fl4", "ff2"})
        \cup {[GetDoc("fl2") EXCEPT !.type = "Announce"]}

NextForward ==
    \/ \E raw \in Forwardings : SaveToInbox(raw, "a3")
    \/ SendCreate("Note", NONE, "public", {})

SpecForward == Init /\ [][NextForward]_vars

\* deliveries from an actor that is gone (a4), from a blocked server (a5),
\* and from a1, whom the admin blocks at some point
Gated == Deliverable({"l1", "l2", "l4", "l5", "f1"})

NextGate ==
    \/ \E raw \in Gated : SaveToInbox(raw, raw.actor)
    \/ SendCreate("Note", NONE, "public", {})
    \/ BlockActor("a1")

SpecGate == Init /\ [][NextGate]_vars

\* Creates and Deletes that may arrive in either order; d3x is a Delete of
\* a2's note r3 sent by a1
OutOfOrder == Deliverable({"c1", "d1", "c3", "d3", "d3x"})

NextOutOfOrder ==
    \/ \E raw \in OutOfOrder : SaveToInbox(raw, raw.actor)
    \/ SendCreate("Note", NONE, "public", {})

SpecOutOfOrder == Init /\ [][NextOutOfOrder]_vars

\* replies whose chain of parents is a cycle (k1 to itself, k2 and k3 to
\* each other) next to notes whose chain ends (r3; r2, r1 and the local o1)
Threads == Deliverable({"ck1", "ck2", "ck3", "c1", "c2", "c3"})

NextRoot ==
    \/ \E raw \in Threads : SaveToInbox(raw, raw.actor)
    \/ SendCreate("Note", NONE, "public", {})

SpecRoot == Init /\ [][NextRoot]_vars

\* authoring for followers, with calls that end early
NextAuthoring ==
    \/ \E raw \in Deliverable({"f1", "f2"}) : SaveToInbox(raw, raw.actor)
    \/ \E in_reply_to \in {NONE, "o1"} : SendCreate("Note", in_reply_to, "public", {})
    \/ \E ap_object_id \in {"o1", "o2"} : SendDelete(ap_object_id)
    \/ \E ap_object_id \in {"o1", "o2"} : SendDeleteInterrupted(ap_object_id)
    \/ SendCreateInterrupted(NONE)

SpecAuthoring == Init /\ [][NextAuthoring]_vars

\* concurrent deliveries
MaxCalls == 2

Racing == Deliverable({"l1", "f1", "c1"})

NextRace ==
    \/ \E slot \in 1..MaxCalls, raw \in Racing : BeginSaveToInbox(slot, raw, raw.actor)
    \/ \E c \in calls : FinishSaveToInbox(c)
    \/ SendCreate("Note", NONE, "public", {})

SpecRace == Init /\ [][NextRace]_vars

----------------------------------------------------------------------------
(* Properties.  A step of save_to_inbox is recognised by the record it     *)
(* leaves in `last`; every step that changes the state rewrites `last`.    *)

\* the counters, rows and work items a delivery may touch
Effects == <<outbox, followers, following, notifications, outgoing_activities,
             poll_answers>>

\* the exceptions a call may end with
Errors == {"ValueError", "IntegrityError", "MultipleResultsFound", "ObjectNotFoundError",
           "HTTPException", "RecursionError"}

\* the stored rows with this ap_id
Stored(rows, ap_id) == {r \in rows : r.ap_id = ap_id}

\* the step is a call of save_to_inbox that follows a call with the same
\* raw activity
IsSecondCall ==
    /\ last.op = "save_to_inbox"
    /\ last'.op = "save_to_inbox"
    /\ last'.id = last.id
    /\ last'.again

\* C1 (as stated): calling save_to_inbox twice with the same raw activity
\* yields exactly one stored InboxObject with that ap_id, and the second
\* call changes no counter, no Follower/Following row, no Notification and
\* no delivery work item.
C1_ExactlyOneStored ==
    [][IsSecondCall =>
          /\ Cardinality(Stored(inbox', last'.id)) = 1
          /\ Effects' = Effects]_vars

\* C1 (amended): calling save_to_inbox twice with the same raw activity
\* yields at most one stored InboxObject with that ap_id; the second call
\* changes no row of any table; and when the first call left the row stored
\* the second call is dropped by the duplicate pre-check (or earlier).
C1_SecondCallChangesNothing ==
    [][IsSecondCall =>
          /\ Cardinality(Stored(inbox', last'.id)) <= 1
          /\ tables' = tables
          /\ (Stored(inbox, last.id) # {}
                 => last'.outcome \in {"duplicate", "actor_not_found"})]_vars

\* C1 witness: the Like l1 was delivered twice, the second delivery was
\* dropped as a duplicate, and the liked post counts it once.
C1_Witness ==
    /\ last.id = "l1" /\ last.outcome = "duplicate" /\ last.again
    /\ Cardinality(Stored(inbox, "l1")) = 1
    /\ \E o \in outbox : o.ap_id = "o1" /\ o.likes_count = 1

\* C2 (as stated): when two save_to_inbox calls for the same activity id
\* both pass the duplicate pre-check before either inserts, the call that
\* inserts second ends without an error, as a silent duplicate, and the
\* activity's side effects are applied exactly once.
C2_RaceIsSilentDuplicate ==
    [][\A c \in calls :
          (calls' = calls \ {c} /\ Stored(inbox, c.raw_object.id) # {})
          => /\ last'.op = "save_to_inbox" /\ last'.id = c.raw_object.id
             /\ last'.outcome \notin Errors
             /\ Cardinality(Stored(inbox', c.raw_object.id)) = 1
             /\ Effects' = Effects]_vars

\* C3: ingestion of one activity is atomic: when the handler dispatched by
\* save_to_inbox fails after the activity's row was inserted, nothing of the
\* activity is committed: no InboxObject, no counter change, no
\* Follower/Following change, no Notification, no delivery work item.
C3_FailedIngestionCommitsNothing ==
    [][(last'.op = "save_to_inbox" /\ last'.outcome \in Errors)
          => /\ inbox' = inbox
             /\ Effects' = Effects]_vars

\* C3 witness: a second Accept of the local actor's Follow failed on the
\* Following row that is already there, after its Notification was added;
\* neither the Accept nor the Notification is stored.
C3_Witness ==
    /\ last.id = "acc1b" /\ last.outcome = "IntegrityError"
    /\ Stored(inbox, "acc1b") = {}
    /\ Stored(inbox, "acc1") # {}
    /\ Cardinality(following) = 1
    /\ \A n \in BagToSet(notifications) : n.inbox_object_id # "acc1b"

\* C4 (as stated): in every committed state, for every stored object X of
\* either store, X.replies_count equals the number of non-deleted
\* InboxObjects plus non-deleted OutboxObjects whose inReplyTo is X.ap_id.
C4_RepliesCountIsLiveCount ==
    /\ \A X \in inbox : X.replies_count = _get_replies_count(DB, X.ap_id)
    /\ \A X \in outbox : X.replies_count = _get_replies_count(DB, X.ap_id)

\* C5 (as stated): when a remote reply R to a stored object X has been
\* ingested and its author then delivers a Delete for R, after that Delete
\* is ingested X.replies_count is one less than before the Delete, and R is
\* marked is_deleted.
C5_DeleteDecrementsParent ==
    [][\A R \in inbox :
          (/\ last'.op = "save_to_inbox" /\ last'.outcome = "committed"
           /\ HasDoc(last'.id) /\ GetDoc(last'.id).type = "Delete"
           /\ GetDoc(last'.id).object = R.ap_id
           /\ GetDoc(last'.id).actor = R.ap_actor_id
           /\ ~R.is_deleted
           /\ R.in_reply_to # NONE /\ InAnybox(DB, R.in_reply_to))
          => /\ get_anybox_object_by_ap_id(DB', R.in_reply_to).replies_count
                = get_anybox_object_by_ap_id(DB, R.in_reply_to).replies_count - 1
             /\ get_inbox_object_by_ap_id(DB', R.ap_id).is_deleted]_vars

\* the step ingests an Undo, delivered by the actor of the stored activity A
\* it names
IsUndoOf(A) ==
    /\ last'.op = "save_to_inbox" /\ last'.outcome = "committed"
    /\ HasDoc(last'.id) /\ GetDoc(last'.id).type = "Undo"
    /\ GetDoc(last'.id).object = A.ap_id
    /\ GetDoc(last'.id).actor = A.ap_actor_id
    /\ Stored(inbox, last'.id) = {}

C7_SecondUndoRejected ==
    [][\A A \in inbox :
          (/\ A.undone_by_inbox_object_id # NONE
           /\ last'.op = "save_to_inbox"
           /\ HasDoc(last'.id) /\ GetDoc(last'.id).type = "Undo"
           /\ GetDoc(last'.id).object = A.ap_id
           /\ Stored(inbox, last'.id) = {})
          => /\ last'.outcome \in Errors
             /\ get_inbox_object_by_ap_id(DB', A.ap_id).undone_by_inbox_object_id
                = A.undone_by_inbox_object_id
             /\ Effects' = Effects]_vars

\* C8 (as stated): send_delete of a local post P that has recorded inbound
\* Likes and Announces marks P and every stored Like and Announce whose
\* activity_object_ap_id is P.ap_id as is_deleted, and changes neither
\* P.likes_count nor P.announces_count.
C8_SendDeleteCascades ==
    [][\A P \in outbox :
          (/\ last'.op = "send_delete" /\ last'.id = P.ap_id
           /\ last'.outcome = "committed"
           /\ \E r \in inbox : /\ r.ap_type \in {"Like", "Announce"}
                               /\ r.activity_object_ap_id = P.ap_id)
          => /\ get_outbox_object_by_ap_id(DB', P.ap_id).is_deleted
             /\ \A r \in inbox' :
                   (r.ap_type \in {"Like", "Announce"}
                    /\ r.activity_object_ap_id = P.ap_id) => r.is_deleted
             /\ get_outbox_object_by_ap_id(DB', P.ap_id).likes_count = P.likes_count
             /\ get_outbox_object_by_ap_id(DB', P.ap_id).announces_count
                = P.announces_count]_vars

\* the recorded PollAnswers of a Question
AnswersOf(question) == {pa \in poll_answers : pa.outbox_object_id = question.ap_id}

\* C9: after any sequence of accepted vote replies on a local Question, its
\* votersCount equals the number of distinct actors with a recorded
\* PollAnswer for it, and each declared option's totalItems equals the
\* number of recorded PollAnswers naming that option.
C9_PollTally ==
    \A q \in outbox :
        q.ap_type = "Question" =>
            /\ q.votersCount = Cardinality({pa.actor_id : pa \in AnswersOf(q)})
            /\ \A i \in DOMAIN q.poll_items :
                  q.poll_items[i].totalItems
                  = Cardinality({pa \in AnswersOf(q) : pa.name = q.poll_items[i].name})

\* C9 witness: a1 and a2 voted A and a3 voted B on the Question o1:
\* votersCount 3, A 2, B 1.
C9_Witness ==
    \E q \in outbox :
        /\ q.ap_id = "o1" /\ q.ap_type = "Question"
        /\ {pa.inbox_object_id : pa \in AnswersOf(q)} = {"va1", "va2", "vb3"}
        /\ q.votersCount = 3
        /\ q.poll_items = <<[name |-> "A", totalItems |-> 2],
                            [name |-> "B", totalItems |-> 1]>>

\* C10: a vote reply ingested after the Question's endTime, or naming an
\* option the Question does not declare, records no PollAnswer, leaves
\* votersCount and every option's totalItems unchanged and enqueues no
\* re-delivery of the Question.
C10_RejectedVoteChangesNoTally ==
    [][\A q \in outbox :
          (/\ q.ap_type = "Question"
           /\ last'.op = "save_to_inbox" /\ last'.outcome = "committed"
           /\ Stored(inbox, last'.id) = {}
           /\ HasDoc(last'.id) /\ GetDoc(last'.id).type = "Create"
           /\ LET vote == GetDoc(GetDoc(last'.id).object)
              IN /\ vote.inReplyTo = q.ap_id /\ vote.name # NONE
                 /\ \/ clock > q.endTime
                    \/ \A i \in DOMAIN q.poll_items : q.poll_items[i].name # vote.name)
          => /\ poll_answers' = poll_answers
             /\ get_outbox_object_by_ap_id(DB', q.ap_id).votersCount = q.votersCount
             /\ get_outbox_object_by_ap_id(DB', q.ap_id).poll_items = q.poll_items
             /\ outgoing_activities' = outgoing_activities]_vars

\* C10 witness: a1's vote was counted, then the poll ended and a2's vote
\* arrived: it is stored as a reply, no PollAnswer is recorded for it and
\* the tally still shows one voter.
C10_Witness ==
    \E q \in outbox :
        /\ q.ap_id = "o1" /\ q.ap_type = "Question" /\ clock > q.endTime
        /\ last.id = "cva2" /\ last.outcome = "committed"
        /\ Stored(inbox, "va2") # {}
        /\ {pa.inbox_object_id : pa \in AnswersOf(q)} = {"va1"}
        /\ q.votersCount = 1

\* the step ingests (stores and dispatches) the Move document M
IsMoveDelivery(M) ==
    /\ M.type = "Move"
    /\ last'.op = "save_to_inbox" /\ last'.id = M.id
    /\ last'.outcome = "committed"
    /\ Stored(inbox, M.id) = {} /\ Stored(inbox', M.id) # {}

ValidMove(M) == M.object = M.actor /\ M.actor \in alsoKnownAs(M.target)

\* C11: a Move whose target actor does not list the moving actor in
\* alsoKnownAs, or whose object is not the sending actor, has no side
\* effects: no Undo and no Follow is authored, no Following row changes,
\* no delivery work item and no move notification is created.
C11_InvalidMoveHasNoSideEffects ==
    [][\A M \in Moves :
          (IsMoveDelivery(M) /\ ~ValidMove(M))
          => /\ outbox' = outbox
             /\ following' = following /\ followers' = followers
             /\ outgoing_activities' = outgoing_activities
             /\ notifications' = notifications]_vars

\* C11 witness: while the local actor follows a1, a1's Move to a3 (whose
\* alsoKnownAs does not list a1) was ingested: the Following row and the
\* Follow are untouched.
C11_Witness ==
    /\ last.id = "mvx" /\ last.outcome = "committed"
    /\ Stored(inbox, "mvx") # {}
    /\ \E f \in following : f.ap_actor_id = "a1"
    /\ \A o \in outbox : o.ap_type = "Follow" /\ o.undone_by_outbox_object_id = NONE

AuthoredBy(step_before, step_after) == {o \in step_after : \A p \in step_before : p.ap_id # o.ap_id}

\* C12: Move shifts following exactly once.  The delivery of a valid Move
\* while the local actor follows the old actor authors exactly one Undo of
\* the old Follow and at most one Follow of the new actor, and nothing
\* else; a delivery of the same Move that follows a delivery of it which
\* shifted the following (and left its move notification) authors no
\* Follow and no Undo.
C12_MoveShiftsFollowingOnce ==
    [][\A M \in Moves :
          /\ (IsMoveDelivery(M) /\ ValidMove(M)
                /\ \E f \in following : f.ap_actor_id = M.object)
             => \E f \in following :
                  /\ f.ap_actor_id = M.object
                  /\ Cardinality({o \in AuthoredBy(outbox, outbox') :
                        /\ o.ap_type = "Undo"
                        /\ o.activity_object_ap_id = f.outbox_object_id}) = 1
                  /\ Cardinality({o \in AuthoredBy(outbox, outbox') :
                        /\ o.ap_type = "Follow"
                        /\ o.activity_object_ap_id = M.target}) <= 1
                  /\ Cardinality(AuthoredBy(outbox, outbox')) <= 2
                  /\ \A o \in AuthoredBy(outbox, outbox') :
                        o.ap_type \in {"Undo", "Follow"}
          /\ (/\ ValidMove(M)
              /\ last.op = "save_to_inbox" /\ HasDoc(last.id)
              /\ GetDoc(last.id).type = "Move"
              /\ GetDoc(last.id).actor = M.actor
              /\ GetDoc(last.id).target = M.target
              /\ ValidMove(GetDoc(last.id))
              /\ BagIn(Notification("move", M.target, last.id, NONE), notifications)
              /\ last'.op = "save_to_inbox" /\ last'.id = M.id)
             => AuthoredBy(outbox, outbox') = {}]_vars

\* C12 witness: the local actor followed a1, a1's Move to a2 was delivered
\* twice (mv1, then mv1b): one Undo of the Follow, one Follow of a2.
C12_Witness ==
    /\ last.id = "mv1b" /\ last.outcome = "committed"
    /\ Stored(inbox, "mv1") # {} /\ Stored(inbox, "mv1b") # {}
    /\ Cardinality({o \in outbox : o.ap_type = "Undo"}) = 1
    /\ Cardinality({o \in outbox : o.ap_type = "Follow"
                                   /\ o.activity_object_ap_id = "a2"}) = 1
    /\ \A f \in following : f.ap_actor_id # "a1"

\* C13: the visibility derived from addressing is public for to=[public]
\* cc=[followers], unlisted for to=[followers] cc=[public], followers-only
\* for to=[followers] with public absent, and direct for to=[specific
\* actors] only; and every authored note whose to/cc fields are the ones
\* send_create builds for a visibility V is stored with visibility V.
C13_VisibilityRoundTrip ==
    /\ object_visibility({AS_PUBLIC}, {FOLLOWERS}) = "public"
    /\ object_visibility({FOLLOWERS}, {AS_PUBLIC}) = "unlisted"
    /\ object_visibility({FOLLOWERS}, {}) = "followers-only"
    /\ object_visibility({"a1"}, {}) = "direct"
    /\ \A o \in outbox : \A V \in VisibilityEnum, mentioned \in SUBSET RemoteActors :
          (/\ o.ap_type = "Note"
           /\ o.to = AddressingTo(V, mentioned)
           /\ o.cc = AddressingCc(V, mentioned))
          => o.visibility = V

\* C13 witness: notes of all four visibilities were authored, one of them
\* followers-only with a mention in cc.
C13_Witness ==
    /\ \A V \in VisibilityEnum : \E o \in outbox :
          /\ o.ap_type = "Note" /\ o.visibility = V
          /\ \E mentioned \in SUBSET RemoteActors :
                o.to = AddressingTo(V, mentioned) /\ o.cc = AddressingCc(V, mentioned)
    /\ \E o \in outbox : o.visibility = "followers-only" /\ o.cc = {"a1"}

\* C14: an activity delivered by an actor other than its own is stored and
\* dispatched only if its LD signature verifies or the re-fetch from its
\* origin returns a document with the same id; if the signature does not
\* verify and the re-fetch fails the call ends with the 401 error, if the
\* re-fetched id differs the activity is abandoned, and in both cases the
\* store is unchanged.
C14_ForwardingAuthentication ==
    [][\A raw \in Forwardings :
          (last'.op = "save_to_inbox" /\ last'.id = raw.id)
          => /\ (Stored(inbox, raw.id) = {} /\ Stored(inbox', raw.id) # {})
                => \/ verify_signature(raw)
                   \/ Fetchable(raw.id) /\ ap_fetch(raw.id).id = raw.id
             /\ (~verify_signature(raw) /\ ~Fetchable(raw.id))
                => last'.outcome = "HTTPException" /\ tables' = tables
             /\ (/\ ~verify_signature(raw) /\ Fetchable(raw.id)
                 /\ ap_fetch(raw.id).id # raw.id)
                => last'.outcome = "abandoned" /\ tables' = tables]_vars

\* C14 witness: with a local note to like, the forwarder delivered the
\* signed fl1 and the refetched fl2 (both stored, both counted) and the
\* unserved fl3 (401, not stored).
C14_Witness ==
    /\ last.id = "fl3" /\ last.outcome = "HTTPException"
    /\ Stored(inbox, "fl1") # {} /\ Stored(inbox, "fl2") # {}
    /\ Stored(inbox, "fl3") = {} /\ Stored(inbox, "fl4") = {}
    /\ \A r \in Stored(inbox, "fl2") : r.ap_type = "Like"
    /\ \E o \in outbox : o.ap_id = "o1" /\ o.likes_count = 2

\* C15: an activity whose actor cannot be resolved, whose actor is flagged
\* blocked, or whose actor's server is on the block-list is dropped
\* without an error, and the store is unchanged.
C15_ProvenanceGate ==
    [][\A raw \in Gated :
          (/\ last'.op = "save_to_inbox" /\ last'.id = raw.id
           /\ \/ raw.actor \in Gone
              \/ \E a \in actors : a.ap_id = raw.actor /\ (a.is_blocked \/ a.is_deleted)
              \/ server(raw.actor) \in BLOCKED_SERVERS)
          => /\ last'.outcome \notin Errors
             /\ last'.outcome \in {"actor_not_found", "actor_blocked", "server_blocked"}
             /\ tables' = tables]_vars

\* C15 witness: a1 liked the local note, was blocked, and then sent a
\* Follow: the Follow is dropped, a1 is no follower, the like still counts.
C15_Witness ==
    /\ last.id = "f1" /\ last.outcome = "actor_blocked"
    /\ \E a \in actors : a.ap_id = "a1" /\ a.is_blocked
    /\ Stored(inbox, "l1") # {} /\ Stored(inbox, "f1") = {}
    /\ followers = {}

\* C16 (as stated): when a Delete for object id O from actor A was ingested
\* before the Create of O from A, ingesting the Create marks the Create
\* is_deleted and materializes no InboxObject for O; in every other case
\* (no Delete stored from the same actor) the wrapped object is
\* materialized as an InboxObject.
C16_DeleteThenCreate ==
    [][\A C \in OutOfOrder :
          (/\ C.type = "Create"
           /\ last'.op = "save_to_inbox" /\ last'.id = C.id
           /\ last'.outcome = "committed"
           /\ Stored(inbox, C.id) = {})
          => IF \E D \in InboxDeletesFor(DB, C.object) : D.ap_actor_id = C.actor
             THEN /\ \A r \in Stored(inbox', C.id) : r.is_deleted
                  /\ Stored(inbox', C.id) # {}
                  /\ Stored(inbox', C.object) = {}
             ELSE Stored(inbox', C.object) # {}]_vars

\* C17: outbox objects are never hard-deleted: every step keeps every
\* OutboxObject row (by ap_id), and a send_delete that commits leaves its
\* target as it was except is_deleted = TRUE, adds exactly one row, a
\* Delete whose object is the target's id, and changes no other row except
\* the replies_count of the target's parent.
C17_OutboxOnlyGrows ==
    [][/\ OutboxApIds(DB) \subseteq OutboxApIds(DB')
       /\ (last'.op = "send_delete" /\ last'.outcome = "committed")
          => /\ get_outbox_object_by_ap_id(DB', last'.id) =
                   [get_outbox_object_by_ap_id(DB, last'.id) EXCEPT !.is_deleted = TRUE]
             /\ Cardinality(AuthoredBy(outbox, outbox')) = 1
             /\ \A d \in AuthoredBy(outbox, outbox') :
                   /\ d.ap_type = "Delete"
                   /\ d.activity_object_ap_id = last'.id
                   /\ d.relates_to_outbox_object_id = last'.id
             /\ \A o \in outbox :
                   o.ap_id # last'.id
                   => \/ o \in outbox'
                      \/ /\ o.ap_id = get_outbox_object_by_ap_id(DB, last'.id).in_reply_to
                         /\ [o EXCEPT !.replies_count =
                                _get_replies_count(DB', o.ap_id)] \in outbox']_vars

\* C17 witness: the local note o1 and a local reply to it were authored,
\* the reply was deleted with send_delete: its row is still there, marked,
\* next to the Delete.
C17_Witness ==
    /\ last.op = "send_delete" /\ last.outcome = "committed"
    /\ \E o \in outbox : /\ o.ap_id = last.id /\ o.is_deleted /\ o.in_reply_to = "o1"
    /\ \E d \in outbox : d.ap_type = "Delete" /\ d.activity_object_ap_id = last.id
    /\ Cardinality(outbox) >= 3

\* C18 (as stated): there is at most one Follower row and at most one
\* Following row per remote actor, and a repeated Follow from an actor
\* that already has a Follower row, or a repeated Accept from an actor that
\* already has a Following row, completes as a no-op for that table
\* without failing the ingestion.
C18_FollowerFollowingUnique ==
    [][/\ \A a \in RemoteActors :
             /\ Cardinality({f \in followers' : f.ap_actor_id = a}) <= 1
             /\ Cardinality({f \in following' : f.ap_actor_id = a}) <= 1
       /\ \A raw \in Follows :
             (/\ last'.op = "save_to_inbox" /\ last'.id = raw.id
              /\ Stored(inbox, raw.id) = {}
              /\ Precheck(DB, raw, raw.actor) = "proceed")
             => /\ (/\ raw.type = "Follow" /\ raw.object = ID
                    /\ \E f \in followers : f.ap_actor_id = raw.actor)
                   => last'.outcome = "committed" /\ followers' = followers
                /\ (/\ raw.type = "Accept"
                    /\ \E o \in outbox : o.ap_id = raw.object /\ o.ap_type = "Follow"
                    /\ \E f \in following : f.ap_actor_id = raw.actor)
                   => last'.outcome = "committed" /\ following' = following]_vars

\* C19 (as stated): conversation-root resolution terminates on cycles: the
\* ingestion of a Create whose object is on a cycle of inReplyTo (a self
\* reply, or A replies to B replies to A) ends without an error and stores
\* the object with the first repeated ap_id on the path, the object itself,
\* as the root of its conversation.
C19_RootResolutionTerminatesOnCycles ==
    [][\A C \in Threads :
          (/\ last'.op = "save_to_inbox" /\ last'.id = C.id
           /\ Precheck(DB, C, C.actor) = "proceed"
           /\ C.object \in RefsSeen(GetDoc(C.object).inReplyTo, {}))
          => /\ last'.outcome = "committed"
             /\ \E r \in Stored(inbox', C.object) : r.conversation = "microblogpub:root:" \o C.object]_vars

\* C20 (as stated): authoring is atomic with its enqueue: a send_create or
\* send_delete call commits its outbox row, the mutation of its target and
\* one delivery work item per resolved recipient together, and a call that
\* does not complete leaves no outbox row and no target mutation.
C20_AuthoringAtomicWithEnqueue ==
    [][(last'.op \in {"send_create", "send_delete"})
       => /\ \A o \in AuthoredBy(outbox, outbox') :
                \A rcp \in _compute_recipients(DB',
                      IF o.ap_type = "Delete"
                      THEN get_outbox_object_by_ap_id(DB', o.activity_object_ap_id)
                      ELSE o) :
                   BagIn([recipient |-> rcp, outbox_object_id |-> o.ap_id,
                          inbox_object_id |-> NONE], outgoing_activities')
          /\ (last'.outcome # "committed") => outbox' = outbox]_vars

----------------------------------------------------------------------------
(* Authoring validation: send_undo, send_announce and Question creation *)

\* send_undo: _send_undo, then the commit
send_undo(s, ap_object_id) == EndOfTransaction(s, _send_undo(s, ap_object_id))

\* send_announce from its visibility check on: `known` is the store in which
\* the announced object is an inbox row
AnnounceKnown(committed, known, ap_object_id) ==
    LET inbox_object == get_inbox_object_by_ap_id(known, ap_object_id)
        announce_id == NextOutboxId(known)
        announce == [OutboxObject(announce_id, "Announce", ap_object_id, NONE,
                                  {AS_PUBLIC}, {FOLLOWERS, inbox_object.ap_actor_id})
                        EXCEPT !.relates_to_inbox_object_id = ap_object_id]
        s1 == InboxSet(save_outbox_object(known, announce), ap_object_id,
                       "announced_via_outbox_object_ap_id", announce_id)
    IN IF inbox_object.visibility \notin {"public", "unlisted"}
       THEN [s |-> committed, outcome |-> "ValueError"]
       ELSE [s |-> EnqueueAll(s1, _compute_recipients(s1, announce), announce_id, NONE),
             outcome |-> "committed"]

\* send_announce: an object that is not in the inbox is fetched, saved and
\* committed before anything else is looked at
send_announce(s, ap_object_id, now) ==
    IF ap_object_id \in InboxIds(s) THEN AnnounceKnown(s, s, ap_object_id)
    ELSE IF ~Fetchable(ap_object_id)
    THEN [s |-> s, outcome |-> "ObjectNotFoundError"]
    ELSE IF save_object_to_inbox(s, ap_fetch(ap_object_id), now).exc # ""
    THEN [s |-> s, outcome |-> save_object_to_inbox(s, ap_fetch(ap_object_id), now).exc]
    ELSE AnnounceKnown(save_object_to_inbox(s, ap_fetch(ap_object_id), now),
                       save_object_to_inbox(s, ap_fetch(ap_object_id), now),
                       ap_object_id)

SendUndo(ap_object_id) ==
    /\ CanAuthor
    /\ Returns("send_undo", ap_object_id, send_undo(DB, ap_object_id))
    /\ UNCHANGED <<clock, calls, config>>

SendAnnounce(ap_object_id) ==
    /\ CanAuthor
    /\ Returns("send_announce", ap_object_id, send_announce(DB, ap_object_id, clock))
    /\ UNCHANGED <<clock, calls, config>>

\* send_create for a poll, with the form's inputs
SendQuestion(poll_type, answers, poll_duration_in_minutes) ==
    /\ CanAuthor
    /\ Returns("send_question", <<poll_type, Len(answers), poll_duration_in_minutes>>,
               send_create(DB, "Question", NONE, "public", {},
                           poll_type, answers, poll_duration_in_minutes, clock))
    /\ UNCHANGED <<clock, calls, config>>

\* A note and polls are authored, a public and a direct remote note arrive
\* or are looked up, and anything authored or stored is undone or announced.
NextValidate ==
    \/ \E d \in Deliverable({"c3", "cp1"}) : SaveToInbox(d, d.actor)
    \/ SendCreate("Note", NONE, "public", {})
    \/ \E poll_type \in {NONE, "oneOf"}, answers \in {<<>>, <<"A">>, PollAnswers},
          poll_duration_in_minutes \in {0, PollDuration} :
           SendQuestion(poll_type, answers, poll_duration_in_minutes)
    \/ \E ap_object_id \in {"o1", "o2"} : SendUndo(ap_object_id)
    \/ \E ap_object_id \in {"r3", "p1"} : SendAnnounce(ap_object_id)

SpecValidate == Init /\ [][NextValidate]_vars

\* C21: a send_undo on a stored activity that is not a Follow, Like or
\* Announce, a send_announce on an object whose visibility is neither public
\* nor unlisted, and a Question send_create with fewer than two answers, no
\* poll kind or no duration each raise an error and leave the outbox, the
\* inbox and the outgoing deliveries exactly as they were before the call.
C21_ValidationBeforePersistence ==
    [][ ( \/ /\ last'.op = "send_undo"
             /\ \E r \in Stored(outbox, last'.id) :
                    r.ap_type \notin {"Follow", "Like", "Announce"}
          \/ /\ last'.op = "send_announce"
             /\ IF Stored(inbox, last'.id) # {}
                THEN \E r \in Stored(inbox, last'.id) :
                         r.visibility \notin {"public", "unlisted"}
                ELSE object_visibility(GetDoc(last'.id).to, GetDoc(last'.id).cc)
                         \notin {"public", "unlisted"}
          \/ /\ last'.op = "send_question"
             /\ (last'.id[1] = NONE \/ last'.id[2] < 2 \/ last'.id[3] = 0) )
        => /\ last'.outcome \in Errors
           /\ <<outbox', inbox', outgoing_activities'>>
                  = <<outbox, inbox, outgoing_activities>> ]_vars

----------------------------------------------------------------------------
(* Recipient resolution *)

\* the values an addressing field is drawn from
Addressable == {AS_PUBLIC, ID, FOLLOWERS} \cup RemoteActors

\* the endpoints the claim expects for the addressed values
ExpectedRecipients(follower_rows, addressed) ==
    {shared_inbox_url(f.ap_actor_id) : f \in {g \in follower_rows : FOLLOWERS \in addressed}}
        \cup {shared_inbox_url(r) : r \in addressed \cap RemoteActors}

\* C22: for any addressing fields the result of _compute_recipients holds
\* neither the public sentinel nor the local actor's id or inbox, holds the
\* endpoint (shared inbox, else inbox) of every current follower when the
\* followers collection is addressed and the shared inbox of every other
\* addressed actor, and nothing else; it is free of duplicates, so no
\* delivery work item is enqueued twice even when two followers share an
\* endpoint.
C22_RecipientResolution ==
    /\ \A to \in SUBSET Addressable, cc \in {{}, {AS_PUBLIC}, {"a3"}} :
           /\ \A r \in {AS_PUBLIC, ID} :
                  /\ inbox_url(r) \notin _compute_recipients(DB, [to |-> to, cc |-> cc])
                  /\ shared_inbox_url(r) \notin
                         _compute_recipients(DB, [to |-> to, cc |-> cc])
           /\ _compute_recipients(DB, [to |-> to, cc |-> cc])
                  = ExpectedRecipients(followers, to \cup cc)
    /\ \A w \in BagToSet(outgoing_activities) : CopiesIn(w, outgoing_activities) = 1

\* two followers share one endpoint and a public note was authored for them
C22_Witness ==
    /\ {f.ap_actor_id : f \in followers} = {"a1", "a2"}
    /\ shared_inbox_url("a1") = shared_inbox_url("a2")
    /\ last.op = "send_create" /\ last.outcome = "committed"
    /\ \E o \in outbox :
           /\ o.ap_type = "Note" /\ FOLLOWERS \in o.cc
           /\ CopiesIn([recipient |-> shared_inbox_url("a1"), outbox_object_id |-> o.ap_id,
                        inbox_object_id |-> NONE], outgoing_activities) = 1

----------------------------------------------------------------------------
(* Ownership *)

\* a2 follows, likes the local note and publishes a note; a1 then sends an
\* Undo, a Delete and an Update for what a2 owns, and a2 an Update of its own.
NextOwner ==
    \/ \E d \in Deliverable({"f2", "l2", "c3", "up3"}) : SaveToInbox(d, d.actor)
    \/ /\ {"f2", "l2", "c3"} \subseteq InboxIds(DB)
       /\ \E d \in Deliverable({"uf2x", "ul2x", "d3x", "dax", "up3x"}) :
              SaveToInbox(d, d.actor)
    \/ outbox = {} /\ SendCreate("Note", NONE, "public", {})

SpecOwner == Init /\ [][NextOwner]_vars

\* C23: an Undo whose actor is not the actor of the undone activity, a Delete
\* whose actor is not the owner of the targeted object or not the targeted
\* actor, and an Update whose actor is not the stored object's actor leave
\* the target's row (document, is_deleted, undone_by), every counter and
\* every Follower and Following row unchanged: the delivery only adds its
\* own inbox row.
C23_Ownership ==
    [][ ( /\ last'.op = "save_to_inbox" /\ last'.outcome = "committed"
          /\ GetDoc(last'.id).type \in {"Undo", "Delete", "Update"}
          /\ \/ \E r \in Stored(inbox, GetDoc(last'.id).object) :
                    r.ap_actor_id # GetDoc(last'.id).actor
             \/ /\ KnownActor(DB, GetDoc(last'.id).object)
                /\ GetDoc(last'.id).object # GetDoc(last'.id).actor )
        => /\ {r \in inbox' : r.ap_id # last'.id} = inbox
           /\ outbox' = outbox
           /\ followers' = followers /\ following' = following
           /\ {a \in actors' : a.ap_id = GetDoc(last'.id).object}
                  = {a \in actors : a.ap_id = GetDoc(last'.id).object} ]_vars

\* a1's Undo of the Follow and of the Like, its Delete and its Update of a2's
\* note and its Delete of a2 itself were all ingested, and a2 still follows,
\* the like still counts and the note is as a2 published it
C23_Witness ==
    /\ {"uf2x", "ul2x", "d3x", "dax", "up3x"} \subseteq {r.ap_id : r \in inbox}
    /\ \E f \in followers : f.ap_actor_id = "a2"
    /\ \E o \in outbox : o.likes_count = 1
    /\ \E r \in Stored(inbox, "r3") : ~r.is_deleted /\ r.updated = 0
    /\ \E r \in Stored(inbox, "l2") : ~r.is_deleted /\ r.undone_by_inbox_object_id = NONE
    /\ \E a \in actors : a.ap_id = "a2" /\ ~a.is_deleted

----------------------------------------------------------------------------
(* The stream *)

\* The local actor follows a1 and publishes a note; a1, a2 and a3 send
\* top-level notes, replies, a vote-shaped reply, a mention and a quote.
NextStream ==
    \/ outbox = {} /\ SendFollow("a1")
    \/ Cardinality(outbox) = 1 /\ SendCreate("Note", NONE, "public", {})
    \/ \E d \in Deliverable({"acc1", "f2", "cn1", "cr4", "c3", "cm1", "cq1", "cva1"}) :
           SaveToInbox(d, d.actor)

SpecStream == Init /\ [][NextStream]_vars

\* C24: every note stored by _process_note_object is hidden from the stream
\* unless it is a top-level note of a followed author, mentions the local
\* actor, or is a reply with content to a local object; the row of the
\* enclosing Create is always hidden.
C24_StreamEligibility ==
    [][ (last'.op = "save_to_inbox" /\ last'.outcome = "committed"
         /\ GetDoc(last'.id).type = "Create")
        => /\ \A r \in Stored(inbox', last'.id) : r.is_hidden_from_stream
           /\ \A r \in {x \in inbox' \ inbox : x.ap_type = "Note"} :
                  r.is_hidden_from_stream
                      = ~( \/ /\ r.in_reply_to = NONE
                              /\ \E f \in following : f.ap_actor_id = r.ap_actor_id
                           \/ ID \in GetDoc(r.ap_id).tag
                           \/ /\ r.in_reply_to # NONE /\ IsLocal(r.in_reply_to)
                              /\ r.content ) ]_vars

\* all four kinds are in the inbox: a followed author's top-level note, a
\* mention and a local reply are shown, a stranger's note and a reply
\* without content are hidden
C24_Witness ==
    /\ \E r \in Stored(inbox, "n1") : ~r.is_hidden_from_stream
    /\ \E r \in Stored(inbox, "m1") : ~r.is_hidden_from_stream
    /\ \E r \in Stored(inbox, "r4") : ~r.is_hidden_from_stream
    /\ \E r \in Stored(inbox, "r3") : r.is_hidden_from_stream
    /\ \E r \in Stored(inbox, "va1") : r.is_hidden_from_stream
    /\ \E r \in Stored(inbox, "cn1") : r.is_hidden_from_stream

----------------------------------------------------------------------------
(* Forwarding of replies to local objects *)

\* A note or a poll is published, a2 and a3 follow, and replies and a quote
\* arrive from their authors or relayed by a3.
NextRelay ==
    \/ /\ outbox = {}
       /\ \E ap_type \in {"Note", "Question"} : SendCreate(ap_type, NONE, "public", {})
    \/ \E d \in Deliverable({"f2", "f3"}) : SaveToInbox(d, d.actor)
    \/ \E d \in Deliverable({"cs1", "c1", "c3", "cq2"}), by \in {"a1", "a2", "a3"} :
           (by \in {d.actor, "a3"}) /\ SaveToInbox(d, by)

SpecRelay == Init /\ [][NextRelay]_vars

\* the forwarding work items of a Create
ForwardsOf(work_items, create_id) ==
    {w \in BagToSet(work_items) : w.inbox_object_id = create_id}

\* the Create of the last delivery, signed, replies to a stored local object
SignedLocalReply(create) ==
    /\ create.sig # "none"
    /\ GetDoc(create.object).inReplyTo \in {o.ap_id : o \in outbox}

\* the work items the claim expects: one per endpoint of the followers other
\* than the Create's actor and the relay
ExpectedForwards(create, sent_by) ==
    {[recipient |-> shared_inbox_url(f.ap_actor_id), outbox_object_id |-> NONE,
      inbox_object_id |-> create.id]
        : f \in {g \in followers : g.ap_actor_id \notin {create.actor, sent_by}}}

\* C25 as amended: a committed Create that carries an LD signature and whose
\* object replies to a local outbox object other than a poll is enqueued
\* once for every follower endpoint except those of the Create's actor and
\* of the relay; any other Create (unsigned, replying to a remote object or
\* to a poll, or top-level) adds no forwarding work item, and the object it
\* quotes adds none either.
C25_CreateForwarding ==
    [][ (last'.op = "save_to_inbox" /\ last'.outcome = "committed"
         /\ GetDoc(last'.id).type = "Create")
        => /\ \A w \in BagToSet(outgoing_activities') :
                  w.inbox_object_id # NONE
                      => CopiesIn(w, outgoing_activities')
                             = IF w.inbox_object_id = last'.id THEN 1
                               ELSE CopiesIn(w, outgoing_activities)
           /\ ForwardsOf(outgoing_activities', last'.id)
                  = IF /\ SignedLocalReply(GetDoc(last'.id))
                       /\ \E o \in Stored(outbox, GetDoc(GetDoc(last'.id).object).inReplyTo) :
                              o.ap_type # "Question"
                    THEN ExpectedForwards(GetDoc(last'.id), last'.by)
                    ELSE {} ]_vars

\* C25 as stated: every committed signed Create whose object replies to a
\* local outbox object is enqueued for the followers other than its actor and
\* the relay.
C25_AsStated ==
    [][ (last'.op = "save_to_inbox" /\ last'.outcome = "committed"
         /\ GetDoc(last'.id).type = "Create" /\ SignedLocalReply(GetDoc(last'.id)))
        => ForwardsOf(outgoing_activities', last'.id)
               = ExpectedForwards(GetDoc(last'.id), last'.by) ]_vars

\* a2's signed reply to the local note was forwarded to a3 and not to a2
C25_Witness ==
    /\ {f.ap_actor_id : f \in followers} = {"a2", "a3"}
    /\ last.op = "save_to_inbox" /\ last.id = "cs1" /\ last.outcome = "committed"
    /\ last.by = "a2"
    /\ {w.recipient : w \in ForwardsOf(outgoing_activities, "cs1")}
           = {shared_inbox_url("a3")}
    /\ \E o \in Stored(outbox, "o1") : o.ap_type = "Note"

----------------------------------------------------------------------------
(* Follow requests *)

\* send_accept: the pending request named by a notification is accepted
send_accept(s, notif) ==
    IF notif.inbox_object_id = NONE
       \/ get_inbox_object_by_ap_id(s, notif.inbox_object_id).ap_type # "Follow"
    THEN [s |-> s, outcome |-> "ValueError"]
    ELSE EndOfTransaction(
             s,
             [_send_accept(s, get_inbox_object_by_ap_id(s, notif.inbox_object_id).ap_actor_id,
                           notif.inbox_object_id)
                 EXCEPT !.notifications =
                            (@ (-) SetToBag({notif}))
                                (+) SetToBag({[notif EXCEPT !.is_accepted = TRUE]})])

SendAccept(notif) ==
    /\ CanAuthor
    /\ Returns("send_accept", notif.inbox_object_id, send_accept(DB, notif))
    /\ UNCHANGED <<clock, calls, config>>

\* Follows for the local actor and for somebody else arrive at a server that
\* approves followers by hand or automatically; the owner accepts requests.
NextApproval ==
    \/ \E d \in Deliverable({"f1", "f1b", "f2", "fx"}) : SaveToInbox(d, d.actor)
    \/ \E notif \in BagToSet(notifications) : SendAccept(notif)

\* followers are approved by hand or automatically
InitApproval == Empty /\ config \in [manually_approves_followers : BOOLEAN]

SpecApproval == InitApproval /\ [][NextApproval]_vars

\* the Accept a step authored for the Follow, and its delivery to the sender
AcceptedIn(follow, step_before, step_after, queued_before, queued_after) ==
    \E acc \in AuthoredBy(step_before, step_after) :
        /\ AuthoredBy(step_before, step_after) = {acc}
        /\ acc.ap_type = "Accept" /\ acc.activity_object_ap_id = follow.id
        /\ queued_after = queued_before
               (+) SetToBag({[recipient |-> inbox_url(follow.actor),
                              outbox_object_id |-> acc.ap_id,
                              inbox_object_id |-> NONE]})

\* C26: a committed Follow whose target is not the local actor leaves
\* followers, outbox, deliveries and notifications as they were; with manual
\* approval a Follow for the local actor adds exactly one pending-follower
\* notification and nothing else, and followers and Accepts appear only in
\* send_accept steps; without it the sender has a Follower row afterwards
\* and exactly one Accept is authored and enqueued to the sender's inbox.
C26_FollowHandling ==
    [][ /\ (last'.op = "save_to_inbox" /\ last'.outcome = "committed"
            /\ GetDoc(last'.id).type = "Follow")
           => IF GetDoc(last'.id).object # ID
              THEN <<followers', outbox', outgoing_activities', notifications'>>
                       = <<followers, outbox, outgoing_activities, notifications>>
              ELSE IF config.manually_approves_followers
              THEN /\ notifications' = notifications
                          (+) SetToBag({Notification("pending_incoming_follower",
                                                     GetDoc(last'.id).actor,
                                                     last'.id, NONE)})
                   /\ <<followers', outbox', outgoing_activities'>>
                          = <<followers, outbox, outgoing_activities>>
              ELSE /\ \E f \in followers' : f.ap_actor_id = GetDoc(last'.id).actor
                   /\ AcceptedIn(GetDoc(last'.id), outbox, outbox',
                                 outgoing_activities, outgoing_activities')
        /\ (config.manually_approves_followers
            /\ (followers' # followers \/ outbox' # outbox))
           => last'.op = "send_accept" ]_vars

\* with manual approval, a1's request waited as a notification and a1 became
\* a follower when it was accepted
C26_Witness ==
    /\ config.manually_approves_followers
    /\ last.op = "send_accept" /\ last.id = "f1" /\ last.outcome = "committed"
    /\ {f.ap_actor_id : f \in followers} = {"a1"}
    /\ \E o \in outbox : o.ap_type = "Accept" /\ o.activity_object_ap_id = "f1"
    /\ \E n \in BagToSet(notifications) :
           n.notification_type = "pending_incoming_follower" /\ n.is_accepted
    /\ "fx" \notin {r.ap_id : r \in inbox}
    /\ "f2" \in {r.ap_id : r \in inbox}

----------------------------------------------------------------------------
(* Answers to follow requests *)

\* The first local activity is a Follow of a1 or a note; a1 accepts it,
\* accepts it again, refuses it, and answers an activity nobody knows.
NextVerdict ==
    \/ outbox = {} /\ SendFollow("a1")
    \/ outbox = {} /\ SendCreate("Note", NONE, "public", {})
    \/ \E d \in Deliverable({"acc1", "acc1b", "rej1", "accx", "rejx"}) :
           SaveToInbox(d, d.actor)

SpecVerdict == Init /\ [][NextVerdict]_vars

\* the activity an answer names is a stored local Follow
NamesLocalFollow(answer, local_objects) ==
    \E o \in local_objects : o.ap_id = answer.object /\ o.ap_type = "Follow"

\* C27: the delivery of an Accept or Reject changes Following only when it
\* names a stored local Follow; a committed Accept of one adds the Following
\* row of the accepting actor, a committed Reject of one removes that
\* actor's row, and an answer to anything else leaves Following and the
\* notifications as they were.
C27_AcceptReject ==
    [][ (last'.op = "save_to_inbox" /\ GetDoc(last'.id).type \in {"Accept", "Reject"})
        => IF ~NamesLocalFollow(GetDoc(last'.id), outbox)
           THEN following' = following /\ notifications' = notifications
           ELSE IF last'.outcome # "committed"
           THEN following' = following
           ELSE IF GetDoc(last'.id).type = "Accept"
           THEN following' = following
                    \cup {[ap_actor_id |-> GetDoc(last'.id).actor,
                           outbox_object_id |-> GetDoc(last'.id).object]}
           ELSE following' = {f \in following :
                                  f.ap_actor_id # GetDoc(last'.id).actor} ]_vars

\* a1 accepted the Follow and then refused it: the Following row is gone;
\* the answers to an unknown activity were stored without effect
C27_Witness ==
    /\ last.op = "save_to_inbox" /\ last.id = "rej1" /\ last.outcome = "committed"
    /\ {"acc1", "accx", "rejx"} \subseteq {r.ap_id : r \in inbox}
    /\ following = {}
    /\ \E o \in outbox : o.ap_id = "o1" /\ o.ap_type = "Follow"
    /\ {n.notification_type : n \in BagToSet(notifications)}
           = {"follow_request_accepted", "follow_request_rejected"}

----------------------------------------------------------------------------
(* Boosts *)

\* The local actor follows a1 and publishes a note; at time 0 a2's and a1's
\* notes arrive; as time passes the notes are boosted.
NextBoost ==
    \/ outbox = {} /\ SendFollow("a1")
    \/ Cardinality(outbox) = 1 /\ SendCreate("Note", NONE, "public", {})
    \/ \E d \in Deliverable({"acc1", "c3", "cn1"}) : clock = 0 /\ SaveToInbox(d, d.actor)
    \/ \E d \in Deliverable({"an3", "an3b", "an3p", "an4", "an2"}) :
           {"acc1", "c3", "cn1"} \subseteq InboxIds(DB) /\ SaveToInbox(d, d.actor)
    \/ Tick

SpecBoost == Init /\ [][NextBoost]_vars

\* another boost of the target that is in the stream and arrived less than
\* an hour before `now`
SeenRecently(rows, target, now) ==
    \E r \in rows :
        /\ r.ap_type = "Announce" /\ r.relates_to_inbox_object_id = target
        /\ ~r.is_hidden_from_stream
        /\ r.created_at > now - 1

\* C28: a committed Announce of a stored remote object is hidden when its
\* target is in the stream and was published less than an hour ago, or when
\* another boost of the target in the stream arrived within the last hour;
\* otherwise it is in the stream exactly when its actor is followed.  A
\* committed Announce of a local object adds one to its announces_count and
\* adds one notification.
C28_AnnounceDedup ==
    [][ (last'.op = "save_to_inbox" /\ last'.outcome = "committed"
         /\ last'.id \notin InboxIds(DB)
         /\ GetDoc(last'.id).type = "Announce")
        => /\ \A t \in Stored(inbox, GetDoc(last'.id).object) :
                  \A a \in Stored(inbox', last'.id) :
                      a.is_hidden_from_stream
                          = IF \/ ~t.is_hidden_from_stream /\ clock - t.ap_published_at < 1
                               \/ SeenRecently(inbox, t.ap_id, clock)
                            THEN TRUE
                            ELSE GetDoc(last'.id).actor
                                     \notin {f.ap_actor_id : f \in following}
           /\ \A o \in Stored(outbox, GetDoc(last'.id).object) :
                  /\ \A p \in Stored(outbox', o.ap_id) :
                         p.announces_count = o.announces_count + 1
                  /\ notifications' = notifications
                         (+) SetToBag({Notification("announce", GetDoc(last'.id).actor,
                                                    last'.id, o.ap_id)}) ]_vars

----------------------------------------------------------------------------
(* Deletion of an actor and of its reactions *)

\* The local actor follows a1 and publishes a note; a1 follows back, likes,
\* boosts and answers the note, a2 likes it; a1 takes reactions back and
\* deletes itself.
NextErase ==
    \/ outbox = {} /\ SendFollow("a1")
    \/ Cardinality(outbox) = 1 /\ SendCreate("Note", NONE, "public", {})
    \/ \E d \in Deliverable({"acc1", "f1", "l3", "l6", "an5", "cr4"}) :
           Cardinality(outbox) >= 2 /\ SaveToInbox(d, d.actor)
    \/ \E d \in Deliverable({"dl3", "dan5", "da1"}) : SaveToInbox(d, d.actor)

SpecErase == Init /\ [][NextErase]_vars

\* the step is a committed delivery of a Delete that was not stored before
DeleteIngested(id, outcome, rows_before) ==
    /\ outcome = "committed"
    /\ id \notin {r.ap_id : r \in rows_before}
    /\ HasDoc(id) /\ GetDoc(id).type = "Delete"

\* the rows the step marked is_deleted
Erased(rows_before, rows_after) ==
    {r \in rows_before :
        ~r.is_deleted /\ \E q \in rows_after : q.ap_id = r.ap_id /\ q.is_deleted}

\* the reactions of one type to a local object among rows
ReactionsTo(rows, ap_type, target) ==
    {r \in rows : r.ap_type = ap_type /\ r.activity_object_ap_id = target}

\* C29: after the committed delivery of a Delete whose object is its own
\* actor, no Follower and no Following row names the actor, the Actor row
\* exists and is deleted, every InboxObject of the actor is deleted, the
\* replies_count of every parent of a deleted reply is the number of its
\* replies that are not deleted, and the likes_count and announces_count of
\* every local object went down by the number of its deleted Likes and
\* Announces.
C29_ActorDeletion ==
    [][ (last'.op = "save_to_inbox"
         /\ DeleteIngested(last'.id, last'.outcome, inbox)
         /\ GetDoc(last'.id).object = GetDoc(last'.id).actor)
        => /\ \A f \in followers' \cup following' :
                  f.ap_actor_id # GetDoc(last'.id).actor
           /\ \E a \in actors' : a.ap_id = GetDoc(last'.id).actor /\ a.is_deleted
           /\ \A r \in inbox' : r.ap_actor_id = GetDoc(last'.id).actor => r.is_deleted
           /\ \A r \in Erased(inbox, inbox') :
                  \A x \in Stored(inbox' \cup outbox', r.in_reply_to) :
                      x.replies_count = _get_replies_count(DB', x.ap_id)
           /\ \A o \in outbox : \A p \in Stored(outbox', o.ap_id) :
                  /\ p.likes_count = o.likes_count
                         - Cardinality(ReactionsTo(Erased(inbox, inbox'), "Like", o.ap_id))
                  /\ p.announces_count = o.announces_count
                         - Cardinality(ReactionsTo(Erased(inbox, inbox'), "Announce", o.ap_id))
      ]_vars

\* C30: a committed Delete that marks stored Likes of a local object deleted
\* lowers its likes_count by their number, and one that marks stored
\* Announces of a local object deleted lowers its announces_count by their
\* number.
C30_ReactionReversion ==
    [][ (last'.op = "save_to_inbox" /\ DeleteIngested(last'.id, last'.outcome, inbox))
        => \A o \in outbox : \A p \in Stored(outbox', o.ap_id) :
               /\ ReactionsTo(Erased(inbox, inbox'), "Like", o.ap_id) # {}
                  => p.likes_count = o.likes_count
                         - Cardinality(ReactionsTo(Erased(inbox, inbox'), "Like", o.ap_id))
               /\ ReactionsTo(Erased(inbox, inbox'), "Announce", o.ap_id) # {}
                  => p.announces_count = o.announces_count
                         - Cardinality(ReactionsTo(Erased(inbox, inbox'), "Announce", o.ap_id))
      ]_vars

----------------------------------------------------------------------------
(* Activities on a deleted object *)

\* a2's note arrives, is boosted by a1, by a3 and by the local actor, and is
\* deleted by a2
NextCascade ==
    \/ \E d \in Deliverable({"c3", "an3", "an3b", "f2", "d3"}) : SaveToInbox(d, d.actor)
    \/ SendAnnounce("r3")

SpecCascade == Init /\ [][NextCascade]_vars

\* the step is a committed Delete that marked its stored object deleted
ObjectDeleted(id, outcome, rows_before, rows_after) ==
    /\ DeleteIngested(id, outcome, rows_before)
    /\ GetDoc(id).object \in {r.ap_id : r \in Erased(rows_before, rows_after)}

----------------------------------------------------------------------------
(* Forwarding of Deletes *)

\* A note is published; a1 and a3 follow; a2's signed reply and a1's unsigned
\* reply arrive, from their authors or relayed by a3; the replies are deleted
\* in signed and unsigned Deletes, and a2 deletes itself.
NextRetract ==
    \/ outbox = {} /\ SendCreate("Note", NONE, "public", {})
    \/ \E d \in Deliverable({"f1", "f3", "c1"}) : outbox # {} /\ SaveToInbox(d, d.actor)
    \/ \E d \in Deliverable({"cs1", "ds1", "da2"}), by \in {"a2", "a3"} : SaveToInbox(d, by)
    \/ \E d \in Deliverable({"ds1u", "d1"}) : SaveToInbox(d, d.actor)

SpecRetract == Init /\ [][NextRetract]_vars

\* the Delete comes from the owner of a stored reply to a local object
DeletesLocalReply(delete, rows, local_objects) ==
    \E r \in rows :
        /\ r.ap_id = delete.object /\ r.ap_actor_id = delete.actor
        /\ r.in_reply_to \in {o.ap_id : o \in local_objects}

\* the Create that carried the object was forwarded
CreateWasForwarded(object_id, work_items) ==
    \E c \in RemoteDocs :
        c.type = "Create" /\ c.object = object_id /\ ForwardsOf(work_items, c.id) # {}

\* C32 as amended: a committed Delete is enqueued for forwarding exactly when
\* it carries an LD signature and comes from the owner of a stored reply to a
\* local object, once for every follower endpoint except those of its actor
\* and of the relay; an unsigned Delete, a Delete of anything else and the
\* deletion of an actor with all its objects add no forwarding work item.
C32_DeleteForwarding ==
    [][ (last'.op = "save_to_inbox" /\ DeleteIngested(last'.id, last'.outcome, inbox))
        => /\ ForwardsOf(outgoing_activities', last'.id)
                  = IF /\ GetDoc(last'.id).sig # "none"
                       /\ DeletesLocalReply(GetDoc(last'.id), inbox, outbox)
                    THEN ExpectedForwards(GetDoc(last'.id), last'.by)
                    ELSE {}
           /\ \A w \in BagToSet(outgoing_activities') :
                  CopiesIn(w, outgoing_activities')
                      = IF w.inbox_object_id = last'.id THEN 1
                        ELSE CopiesIn(w, outgoing_activities) ]_vars

\* C32 as stated: a committed Delete by the author of a reply whose Create
\* was forwarded is enqueued for the followers other than its actor and the
\* relay.
C32_AsStated ==
    [][ (last'.op = "save_to_inbox" /\ DeleteIngested(last'.id, last'.outcome, inbox)
         /\ DeletesLocalReply(GetDoc(last'.id), inbox, outbox)
         /\ CreateWasForwarded(GetDoc(last'.id).object, outgoing_activities))
        => ForwardsOf(outgoing_activities', last'.id)
               = ExpectedForwards(GetDoc(last'.id), last'.by) ]_vars

\* a2's signed Delete of its forwarded reply, relayed by a3, went to a1 only
C32_Witness ==
    /\ last.op = "save_to_inbox" /\ last.id = "ds1" /\ last.outcome = "committed"
    /\ last.by = "a3"
    /\ {f.ap_actor_id : f \in followers} = {"a1", "a3"}
    /\ CreateWasForwarded("rs1", outgoing_activities)
    /\ {w.recipient : w \in ForwardsOf(outgoing_activities, "ds1")}
           = {shared_inbox_url("a1")}

----------------------------------------------------------------------------
(* Lookups that fail during ingestion *)

\* The local actor follows a2 or a3, whose Accept starts the prefetch of an
\* outbox that fails (a2) or holds a note that cannot be resolved (a3);
\* notes arrive whose parent or quoted object is on a server that fails.
NextEnrich ==
    \/ outbox = {} /\ \E ap_actor_id \in {"a2", "a3"} : SendFollow(ap_actor_id)
    \/ \E d \in Deliverable({"acc2", "acc3", "ce1", "cq5", "cq1", "c3", "ct1"}) :
           SaveToInbox(d, d.actor)

SpecEnrich == Init /\ [][NextEnrich]_vars

\* a lookup made for the activity fails: the parent of its object or the
\* object it quotes is on a server that fails, or it is an Accept of a
\* stored Follow by an actor whose outbox cannot be read to the end
LookupFails(activity, local_objects) ==
    \/ /\ activity.type = "Create"
       /\ \/ GetDoc(activity.object).inReplyTo \in Unreachable
          \/ GetDoc(activity.object).quoteUrl \in Unreachable
    \/ /\ activity.type = "Accept"
       /\ \E o \in local_objects : o.ap_id = activity.object /\ o.ap_type = "Follow"
       /\ \/ activity.actor \in OutboxUnavailable
          \/ \E i \in DOMAIN OutboxCollection(activity.actor) :
                 GetDoc(GetDoc(OutboxCollection(activity.actor)[i]).object).inReplyTo
                     \in Unreachable

\* C33: a first delivery for which the chase of the conversation root, the
\* fetch of the quoted object or the prefetch after an Accept fails is
\* committed: the activity is stored, and with it the object of a Create or
\* the Following row of an Accept.
C33_EnrichmentFailuresAreNotFatal ==
    [][ (last'.op = "save_to_inbox" /\ last'.id \notin InboxIds(DB)
         /\ HasDoc(last'.id) /\ LookupFails(GetDoc(last'.id), outbox))
        => /\ last'.outcome = "committed"
           /\ Stored(inbox', last'.id) # {}
           /\ GetDoc(last'.id).type = "Create"
                  => Stored(inbox', GetDoc(last'.id).object) # {}
           /\ GetDoc(last'.id).type = "Accept"
                  => \E f \in following' : f.ap_actor_id = GetDoc(last'.id).actor ]_vars

-----------------------------------------------------------------------------
(* The conversation of a stored object *)

\* threads with and without a context, local replies to remote notes
Threaded == Deliverable({"cg1", "cg2", "cg3", "cg4", "cg5", "c3", "cm1"})

NextContext ==
    \/ \E d \in Threaded : SaveToInbox(d, d.actor)
    \/ \E in_reply_to \in {"g2", "g4", "r3"} :
           /\ Cardinality(outbox) < 2
           /\ in_reply_to \in InboxIds(DB)
           /\ SendCreate("Note", in_reply_to, "public", {})

SpecContext == Init /\ [][NextContext]_vars

\* the object an id resolves to, the local store first, its origin otherwise
Resolvable(s, ap_id) == ap_id # NONE /\ (InAnybox(s, ap_id) \/ Fetchable(ap_id))
Resolved(s, ap_id) ==
    IF InAnybox(s, ap_id)
    THEN [ap_id |-> ap_id, context |-> get_anybox_object_by_ap_id(s, ap_id).ap_context,
          inReplyTo |-> get_anybox_object_by_ap_id(s, ap_id).in_reply_to]
    ELSE [ap_id |-> ap_id, context |-> GetDoc(ap_id).context,
          inReplyTo |-> GetDoc(ap_id).inReplyTo]

\* one step up the thread; an object whose parent is absent or cannot be
\* resolved stays where it is
Up(s, ap_id) ==
    IF Resolvable(s, Resolved(s, ap_id).inReplyTo) THEN Resolved(s, ap_id).inReplyTo
    ELSE ap_id

\* the conversation of the thread that ends in `top`
ConversationAt(s, top) ==
    IF Resolved(s, top).context # NONE THEN Resolved(s, top).context
    ELSE "microblogpub:root:" \o top

\* `conversation` is what the walk from ap_id yields, for a thread of at
\* most 4 objects
IsRootOf(s, ap_id, conversation) ==
    /\ Up(s, Up(s, Up(s, Up(s, ap_id)))) = Up(s, Up(s, Up(s, ap_id)))
    /\ conversation = ConversationAt(s, Up(s, Up(s, Up(s, ap_id))))

\* C34: the conversation of a note stored by the delivery of its Create, and
\* of a local reply to an object without context, is the context of the
\* first object up the inReplyTo chain that has no inReplyTo or whose parent
\* cannot be found, or "microblogpub:root:" followed by that object's ap_id
\* when it has no context; objects already stored are read from the store.
C34_ConversationRoot ==
    [][/\ \A C \in Threaded :
             (/\ last'.op = "save_to_inbox" /\ last'.id = C.id
              /\ C.object \notin InboxIds(DB)
              /\ Stored(inbox', C.object) # {})
             => \A r \in Stored(inbox', C.object) :
                    IsRootOf(DB, C.object, r.conversation)
       /\ (/\ last'.op = "send_create" /\ last'.id # NONE
           /\ last'.outcome = "committed"
           /\ Resolved(DB, last'.id).context = NONE)
          => \A o \in outbox' \ outbox :
                 IsRootOf(DB, last'.id, o.conversation)]_vars

\* a reply whose parent does not exist is stored with its own context, and
\* a reply to it, delivered or written locally, with that context too
C34_Witness ==
    /\ \E r \in inbox : r.ap_id = "g5" /\ r.conversation = "cx3"
    /\ \E r \in inbox : r.ap_id = "g4" /\ r.conversation = "microblogpub:root:g4"
    /\ \E r \in inbox : r.ap_id = "g2" /\ r.conversation = "cx1"
    /\ \E o \in outbox : o.in_reply_to = "g2" /\ o.conversation = "cx1"
                         /\ o.ap_context # "cx1"

-----------------------------------------------------------------------------
(* The revisions of an edited note *)

NextRevise ==
    \/ outbox = {} /\ SendCreate("Note", NONE, "public", {})
    \/ \E source \in Sources : SendUpdate("o1", source)
    \/ Cardinality(outbox) < 2 /\ SendDelete("o1")
    \/ SaveToInbox(GetDoc("l1"), "a1")
    \/ Tick

SpecRevise == Init /\ [][NextRevise]_vars

\* the revision an edit of outbox_object has to record
PreEdit(outbox_object) ==
    [ap_object |-> [content |-> outbox_object.content,
                    published |-> outbox_object.published,
                    updated |-> outbox_object.updated],
     source |-> outbox_object.source,
     updated |-> IF outbox_object.updated = <<>> THEN outbox_object.published
                 ELSE outbox_object.updated[1]]

IsPrefix(a, b) == Len(a) <= Len(b) /\ \A i \in DOMAIN a : a[i] = b[i]

\* C35: a successful send_update appends exactly one entry, the (ap_object,
\* source, updated) of the object before the edit, to the object's
\* revisions and rewrites the document; no other step changes the revisions
\* of any object, an object is created with none, and no entry is ever
\* changed or removed.
C35_RevisionLogAppendOnly ==
    [][/\ \A o \in outbox : \E n \in outbox' :
              /\ n.ap_id = o.ap_id
              /\ IsPrefix(o.revisions, n.revisions)
              /\ IF last'.op = "send_update" /\ last'.id = o.ap_id
                    /\ last'.outcome = "committed" /\ outbox' # outbox
                 THEN /\ n.revisions = Append(o.revisions, PreEdit(o))
                      /\ n.updated = <<clock>>
                      /\ \E source \in Sources :
                             /\ n.source = source
                             /\ n.content = markdownify(source).content
                 ELSE /\ n.revisions = o.revisions
                      /\ n.source = o.source /\ n.content = o.content
                      /\ n.updated = o.updated
       /\ \A n \in outbox' : n.ap_id \notin OutboxApIds(DB) => n.revisions = <<>>]_vars

\* a note edited three times: the log holds the original text, then the
\* first and the second edit, in that order
C35_Witness ==
    \E o \in outbox :
        /\ Len(o.revisions) = 3
        /\ o.revisions[1].source = FirstSource /\ o.revisions[1].ap_object.updated = <<>>
        /\ o.revisions[2].source = "v1" /\ o.revisions[3].source = "v2 @a2"
        /\ o.revisions[2].updated < o.revisions[3].updated
        /\ o.source = "v1"

-----------------------------------------------------------------------------
(* An object that reaches the inbox twice *)

\* a2's note r3 is boosted by a1 and by a3 and created by a2; a3's note t1
\* is prefetched when a3 accepts the local Follow and created by a3
NextUnique ==
    \/ outbox = {} /\ SendFollow("a3")
    \/ \E d \in Deliverable({"an3", "an3b", "c3", "acc3", "ct1"}) : SaveToInbox(d, d.actor)

SpecUnique == Init /\ [][NextUnique]_vars

\* C36 (as stated): no two InboxObject rows share an ap_id, and the first
\* delivery of a Create whose object is already stored as an InboxObject
\* (materialized from an Announce or by the prefetch after an Accept) is
\* committed and leaves exactly one row for the object.
C36_UniqueWithoutFailedIngestion ==
    [][/\ \A r1, r2 \in inbox' : r1.ap_id = r2.ap_id => r1 = r2
       /\ \A C \in Deliverable({"c3", "ct1"}) :
              (/\ last'.op = "save_to_inbox" /\ last'.id = C.id
               /\ C.id \notin InboxIds(DB)
               /\ C.object \in InboxIds(DB))
              => /\ last'.outcome = "committed"
                 /\ C.id \in InboxIds([inbox |-> inbox'])
                 /\ Cardinality(Stored(inbox', C.object)) = 1]_vars

-----------------------------------------------------------------------------
(* Counters of the reactions to a local object *)

\* a1 and a2 like the first local object and a3 boosts it; a1 takes its
\* Like back in two Undo activities and in a Delete, a3 its boost in an Undo
\* and in a Delete
NextTally ==
    \/ outbox = {} /\ SendCreate("Note", NONE, "public", {})
    \/ \E d \in Deliverable({"l1", "l2", "an1", "ul1", "ul1b", "uan1", "dl1", "dan1"}) :
           SaveToInbox(d, d.actor)

SpecTally == Init /\ [][NextTally]_vars

\* the stored reactions of one type to a local object that are neither
\* undone nor deleted
LiveReactions(rows, ap_type, ap_id) ==
    {r \in rows : /\ r.ap_type = ap_type /\ r.activity_object_ap_id = ap_id
                  /\ ~r.is_deleted /\ r.undone_by_inbox_object_id = NONE}

\* C37 (as stated): likes_count and announces_count of every local object
\* equal the number of stored inbound Like, respectively Announce,
\* activities targeting it that are neither undone nor deleted, and are
\* never negative.
C37_CountersMatchLiveReactions ==
    \A o \in outbox :
        /\ o.likes_count = Cardinality(LiveReactions(inbox, "Like", o.ap_id))
        /\ o.announces_count = Cardinality(LiveReactions(inbox, "Announce", o.ap_id))
        /\ o.likes_count >= 0 /\ o.announces_count >= 0

-----------------------------------------------------------------------------
(* Following rows and the Follows behind them *)

\* the local actor follows a2 or a3, then possibly the other one, and takes
\* its Follows back; a1, a2 and a3 accept the first Follow
NextTrust ==
    \/ \E ap_actor_id \in {"a2", "a3"} :
           Cardinality(outbox) < 2 /\ SendFollow(ap_actor_id)
    \/ \E ap_object_id \in {"o1", "o2"} :
           ap_object_id \in OutboxApIds(DB) /\ SendUndo(ap_object_id)
    \/ \E d \in Deliverable({"acc1", "acc2", "acc3"}) : SaveToInbox(d, d.actor)

SpecTrust == Init /\ [][NextTrust]_vars

\* C38 (as stated): a Following row for a remote actor exists only if the
\* local actor authored a Follow whose object is that actor and that Follow
\* has not been undone; so an Accept from another actor than the one the
\* Follow targets, or one that arrives after send_undo of the Follow,
\* creates no Following row.
C38_FollowingImpliesLiveFollow ==
    \A f \in following :
        \E o \in outbox : /\ o.ap_type = "Follow"
                          /\ o.activity_object_ap_id = f.ap_actor_id
                          /\ o.undone_by_outbox_object_id = NONE

-----------------------------------------------------------------------------
(* Follower rows and the Follows behind them *)

\* a1 and a2 ask to follow, a1 takes its request back, the owner accepts
\* requests from the notifications
NextWithdraw ==
    \/ \E d \in Deliverable({"f1", "f2", "uf1"}) : SaveToInbox(d, d.actor)
    \/ \E notif \in BagToSet(notifications) : SendAccept(notif)

SpecWithdraw == InitApproval /\ [][NextWithdraw]_vars

\* the stored Follow with this id has been undone by its author
Withdrawn(rows, follow_id) ==
    \E r \in rows : /\ r.ap_id = follow_id /\ r.ap_type = "Follow"
                    /\ r.undone_by_inbox_object_id # NONE

\* C39 (as stated): every Follower row references a stored Follow from its
\* actor that is not undone; a send_accept for a request whose Follow has
\* been undone creates no Follower row and enqueues no Accept; and the first
\* delivery of an Undo of the Follow a Follower row references removes that
\* row.
C39_FollowerImpliesLiveFollow ==
    [][/\ \A f \in followers' :
              \E r \in inbox' : /\ r.ap_id = f.inbox_object_id /\ r.ap_type = "Follow"
                                /\ r.ap_actor_id = f.ap_actor_id
                                /\ r.undone_by_inbox_object_id = NONE
       /\ (last'.op = "send_accept" /\ Withdrawn(inbox, last'.id))
          => /\ followers' = followers
             /\ outgoing_activities' = outgoing_activities
       /\ \A U \in Deliverable({"uf1"}) :
              (/\ last'.op = "save_to_inbox" /\ last'.id = U.id
               /\ U.id \notin InboxIds(DB)
               /\ \E f \in followers : f.inbox_object_id = U.object)
              => followers' = {f \in followers : f.inbox_object_id # U.object}]_vars

-----------------------------------------------------------------------------
(* The tree of replies shown with an object *)

\* a stored object as get_replies_tree reads it
TreeNode(row, box) ==
    [ap_id |-> row.ap_id, in_reply_to |-> row.in_reply_to,
     ap_published_at |-> IF box = "inbox" THEN row.ap_published_at ELSE row.published]

allowed_visibility(is_current_user_admin) ==
    IF is_current_user_admin THEN {"public", "unlisted", "followers-only", "direct"}
    ELSE {"public", "unlisted"}

\* tree_nodes: the requested object alone when it has no conversation, else
\* the notes of its conversation that are not deleted and may be shown
tree_nodes(s, requested_object, box, is_current_user_admin) ==
    IF requested_object.conversation = NONE THEN {TreeNode(requested_object, box)}
    ELSE {TreeNode(r, "inbox") : r \in
             {r \in s.inbox : /\ r.conversation = requested_object.conversation
                              /\ r.ap_type \in {"Note", "Page", "Article"}
                              /\ ~r.is_deleted
                              /\ r.visibility \in allowed_visibility(is_current_user_admin)}}
         \cup
         {TreeNode(o, "outbox") : o \in
             {o \in s.outbox : /\ o.conversation = requested_object.conversation
                               /\ ~o.is_deleted
                               /\ o.ap_type \in {"Note", "Page", "Article"}
                               /\ o.visibility \in allowed_visibility(is_current_user_admin)}}

\* sorted(children, key=ap_published_at) for the children of one node;
\* children published at the same time stay in the order the queries
\* returned them, which is one of the ascending orders
SortedChildren(nodes, ap_id) ==
    LET children == {n.ap_id : n \in {n \in nodes : n.in_reply_to = ap_id}}
        at(child) == (CHOOSE n \in nodes : n.ap_id = child).ap_published_at
    IN CHOOSE seq \in [1..Cardinality(children) -> children] :
           /\ \A i, j \in DOMAIN seq : i # j => seq[i] # seq[j]
           /\ \A i, j \in DOMAIN seq : i < j => at(seq[i]) <= at(seq[j])

\* _get_reply_node_children: the nodes below and including ap_id
RECURSIVE _get_reply_node_children(_, _)
_get_reply_node_children(nodes, ap_id) ==
    {ap_id} \cup UNION {_get_reply_node_children(nodes, n.ap_id) :
                           n \in {n \in nodes : n.in_reply_to = ap_id}}

\* the nodes sorted(tree_nodes, key=ap_published_at) may put first
Earliest(nodes) == {n \in nodes : \A m \in nodes : n.ap_published_at <= m.ap_published_at}

\* the tree with this root: its nodes, the children of each in order, and
\* the nodes marked is_requested
ReplyTree(nodes, root_ap_object, requested_id) ==
    [outcome |-> "returned", root |-> root_ap_object.ap_id,
     nodes |-> _get_reply_node_children(nodes, root_ap_object.ap_id),
     children |-> [ap_id \in _get_reply_node_children(nodes, root_ap_object.ap_id) |->
                      SortedChildren(nodes, ap_id)],
     is_requested |-> {ap_id \in _get_reply_node_children(nodes, root_ap_object.ap_id) :
                          ap_id = requested_id}]

\* get_replies_tree: every tree the call can return for the nodes it
\* selects (one for each node that may come first when no node is top-level)
get_replies_tree(nodes, requested_id) ==
    IF Cardinality({n \in nodes : n.in_reply_to = NONE}) > 1
    THEN {[outcome |-> "ValueError"]}
    ELSE IF \E n \in nodes : n.in_reply_to = NONE
    THEN {ReplyTree(nodes, CHOOSE n \in nodes : n.in_reply_to = NONE, requested_id)}
    ELSE IF nodes = {} THEN {[outcome |-> "IndexError"]}
    ELSE {ReplyTree(nodes, first, requested_id) : first \in Earliest(nodes)}

\* the trees for a stored object
RepliesTrees(s, requested_id, is_current_user_admin) ==
    get_replies_tree(
        tree_nodes(s, get_anybox_object_by_ap_id(s, requested_id),
                   IF IsLocal(requested_id) THEN "outbox" ELSE "inbox",
                   is_current_user_admin),
        requested_id)

\* the page of a stored object is shown to the owner or to a visitor
GetRepliesTree(requested_id, is_current_user_admin) ==
    /\ InAnybox(DB, requested_id)
    /\ \E tree \in RepliesTrees(DB, requested_id, is_current_user_admin) :
           last' = Result("get_replies_tree", requested_id, tree.outcome)
    /\ UNCHANGED <<tables, clock, calls, config>>

\* a thread under the first local note: a1 replies to it and deletes the
\* reply, a2 replies to a1; and a thread whose first object does not exist
NextTree ==
    \/ outbox = {} /\ SendCreate("Note", NONE, "public", {})
    \/ \E d \in Deliverable({"c1", "c2", "d1", "cg3", "cg5"}) : SaveToInbox(d, d.actor)
    \/ \E requested_id \in {"o1", "r1", "r2", "g3", "g5"}, is_current_user_admin \in BOOLEAN :
           GetRepliesTree(requested_id, is_current_user_admin)
    \/ Tick

SpecTree == Init /\ [][NextTree]_vars

\* the notes a page can be requested for: stored, not deleted, and visible
\* to the one who asks
Requestable(s, is_current_user_admin) ==
    {r.ap_id : r \in {r \in s.inbox \cup s.outbox :
                         /\ r.ap_type = "Note" /\ ~r.is_deleted
                         /\ r.visibility \in allowed_visibility(is_current_user_admin)}}

\* the publish time of a stored object
PublishedAt(s, ap_id) ==
    IF IsLocal(ap_id) THEN get_outbox_object_by_ap_id(s, ap_id).published
    ELSE get_inbox_object_by_ap_id(s, ap_id).ap_published_at

\* the stored object with this id belongs to the conversation and is live
LiveInConversation(s, ap_id, conversation) ==
    /\ InAnybox(s, ap_id)
    /\ ~get_anybox_object_by_ap_id(s, ap_id).is_deleted
    /\ get_anybox_object_by_ap_id(s, ap_id).conversation = conversation

\* C40 (as stated): for every stored, live and visible note, whatever else
\* of its conversation is stored, deleted or missing, get_replies_tree
\* returns a tree with one root in which exactly one node is marked
\* is_requested, every node is a live object of the conversation, each
\* child's inReplyTo is its parent's ap_id and siblings are in ascending
\* publish time.
C40_ReplyTreeContainsRequested ==
    \A is_current_user_admin \in BOOLEAN :
        \A requested_id \in Requestable(DB, is_current_user_admin) :
            \A tree \in RepliesTrees(DB, requested_id, is_current_user_admin) :
                /\ tree.outcome = "returned"
                /\ tree.root \in tree.nodes
                /\ Cardinality(tree.is_requested) = 1
                /\ \A ap_id \in tree.nodes :
                       /\ LiveInConversation(DB, ap_id,
                              get_anybox_object_by_ap_id(DB, requested_id).conversation)
                       /\ \A i \in DOMAIN tree.children[ap_id] :
                              get_anybox_object_by_ap_id(DB, tree.children[ap_id][i]).in_reply_to
                                  = ap_id
                       /\ \A i, j \in DOMAIN tree.children[ap_id] :
                              i < j => PublishedAt(DB, tree.children[ap_id][i])
                                           <= PublishedAt(DB, tree.children[ap_id][j])

====
